---- MODULE Spec2Model ----
(***************************************************************************)
(* Model of the L2OAM engine of the EPON OLT adapter: the correlation-tag  *)
(* allocator, the inbound dispatcher, the per-device request/response      *)
(* channel and the sequencer scripts.                                      *)
(***************************************************************************)
EXTENDS Integers, Sequences, FiniteSets, TLC

(***************************************************************************)
(* Bounds of the model.                                                    *)
(***************************************************************************)
MaxCalls == 4      \* correlation-tag requests built in one behaviour
MaxFrames == 2     \* inbound frames handled in one behaviour
MaxCmds == 3       \* northbound commands run in one behaviour
MaxSubmits == 3    \* requests submitted to one device channel
MaxHandlers == 4   \* device handlers created in one behaviour
MaxSends == 3      \* calls of the transport's send in one behaviour
MaxIoFrames == 3   \* packets that reach the packet source of the I/O loop
MaxPolls == 2      \* polls of the ledger the poll loop finishes
MaxMarks == 2      \* reboot marks set in the ledger
MaxRegs == 2       \* changes of the registry while the ledger is polled
MaxNwLen == 2      \* bytes of the network-ID of a Discovery-Solicit value
MaxRateLen == 4    \* bytes of the rate handed to a rate generator
MaxAddFlows == 2    \* add-flow commands run in one behaviour
MaxAdopts == 4     \* calls of discovery in one behaviour
MaxRxFrames == 2   \* frames the I/O loop handles as bytes
MaxDocLen == 3     \* records of the status document
MaxTlvBytes == 3   \* bytes behind the head of a keep-alive payload

(***************************************************************************)
(* Program constants.                                                      *)
(***************************************************************************)
\* A uint32 is kept as its two 16-bit halves, so that the counter has the
\* width of the program's counter.
Half == 65536
InitialInstanceHi == 23583             \* 0x5c1f of 0x5c1f6a60
InitialInstanceLo == 27232             \* 0x6a60 of 0x5c1f6a60
PcscompuCTInstanceLo == 3              \* literal tag of GeneratePcscompuTivitcom
EthernetTypeEAPOL == 34958             \* 0x888e
EthernetTypeDot1Q == 33024             \* 0x8100
EthernetTypeQinQ == 34984              \* 0x88a8
EthernetTypeOAM == 43208               \* 0xa8c8
EthernetTypeOther == 2048              \* 0x0800, a type dispatch does not handle

VARIABLES
    \* correlation-tag allocator (l2oam/message.go)
    instance,        \* the process-wide counter
    instanceMutex,   \* task holding instanceMutex, or NoTask
    tpc,             \* position of each task inside a generator
    tgen,            \* generator each task is running
    tlocal,          \* value a task loaded from / read back out of instance
    returned,        \* values returned by getOltInstance, in call order
    pdus,            \* requests built: <<generator, CTInstance>>, in build order
    \* inbound dispatcher (core/l2oam_handle.go)
    registry,        \* MACs that have an entry in the device registry
    inbound,         \* frames captured and not yet taken by the I/O loop
    arrived,         \* number of frames captured so far
    delivered,       \* per handled frame, in order: the frame, whether its
                     \* source was registered, the calls dispatch made, and
                     \* its arrival number
    \* sequencer (core sequencer scripts L2oam...)
    olt,             \* the OLT record of the registry
    onus,            \* the ONU records of the registry
    hw,              \* objects that exist on the OLT (acknowledged creations)
    seq,             \* the northbound task: running script and position
    sent,            \* requests sent by the running / last script, in order
    stepLog,         \* last send step: request, outcome, value returned
    firstFail,       \* index in sent of the first step that timed out, or 0
    result,          \* what the last finished script returned to its caller
    ncmds,           \* number of northbound commands started
    lastCmd,         \* the northbound command that runs or ran last
    flowCalls,       \* finished add-flow-dev commands: ONU, requests sent
    \* request/response channel of a device
    chQueue,         \* per device: requests submitted and not yet transmitted
    chOut,           \* per device: requests transmitted, awaiting a response
    chSubmitted,     \* per device: ids of the requests, in submission order
    chSent,          \* per device: ids of the requests, in transmission order
    chWait,          \* per task: the request it waits for and what it got
    nsub,            \* number of requests submitted
    \* raw-Ethernet handle (core/l2oam_handle.go NewL2oamHandle)
    l2oamHandle,     \* the package variable: nil, or the handle object
    hpc,             \* position of each task creating a device handler
    hlocal,          \* the pcap handle a task got from OpenLive, 0 for nil
    opened,          \* pcap handles opened by the process
    loops,           \* pcap handles that have a startThread task
    nhandlers,       \* number of device handlers created
    \* I/O loop and send (core/l2oam_handle.go startThread, send)
    lpc,             \* position of the I/O loop: at the select, or in dispatch
    pkts,            \* packets waiting at the packet source
    spc,             \* per sender: idle, blocked in send, or returned from it
    narr,            \* number of packets that arrived
    nsend,           \* number of calls of send
    written,         \* senders whose frame was written, in order
    \* ONU status ledger and its poll loop
    ledger,          \* the document: reboot_state of the record of a MAC
    wList,           \* onuList of the poll loop
    wpc,             \* position of the poll loop
    wi,              \* index of the record the range loop is at
    poll,            \* the running poll: list read, devices found, resets
    polls,           \* the finished polls, each with the list it wrote
    ldev,            \* MACs the registry holds a device for
    nmarks,          \* number of reboot marks set
    nregs,           \* number of registry changes
    \* OAMPDU Information and the package variant
    info,            \* the decoded PDU: OSILength and OSIValue
    pkgA,            \* IsOnuPkgA of the decoded PDU
    pkgB,            \* IsOnuPkgB of the decoded PDU
    \* Discovery-Solicit and its codec
    sol,             \* the Discovery-Solicit value at hand
    wire,            \* its serialized bytes, <<>> before SerializeTo
    dec,             \* <<the value Decode made of wire>>, <<>> before Decode
    \* OLT-management request generators
    call,            \* the last generator call: name, arguments, tags taken
    req,             \* <<the request the call returned>>, or <<>>
    frame,           \* the serialized bytes of req, <<>> before SerializeTo
    \* add-flow (traffic profiles)
    folt,           \* whether the OLT record exists
    fonus,          \* per ONU: record exists, is active, has object context
    prof,           \* the OLT record's down- and up-stream profile
    refTbl,         \* per ONU: the record holds a reference table
    hwProfiles,     \* traffic-profile objects that exist in the OLT
    s3,             \* position of the running add-flow or remove-flow
    s3log,          \* the add-flow invocations that have ended
    ninv,           \* add-flow invocations so far
    \* inbound frames as bytes
    rx,             \* the I/O loop handling frames as bytes: position, last frame
    \* creation of the registry entry by discovery
    ad,             \* discovery calls: position and MAC per task, registry, keep-alives
    \* keep-alive PDUs
    kp,             \* keep-alive PDU at hand: generator call, value, bytes, decoded value
    \* records of the ONU status document
    doc             \* the status document, the last look-up and its answer

tagVars == <<instance, instanceMutex, tpc, tgen, tlocal, returned, pdus>>

dispVars == <<registry, inbound, arrived, delivered>>

seqVars == <<olt, onus, hw, seq, sent, stepLog, firstFail, result, ncmds,
            lastCmd, flowCalls>>

chanVars == <<chQueue, chOut, chSubmitted, chSent, chWait, nsub>>

hdlVars == <<l2oamHandle, hpc, hlocal, opened, loops, nhandlers>>

ioVars == <<lpc, pkts, spc, narr, nsend, written>>

ledgerVars == <<ledger, wList, wpc, wi, poll, polls, ldev, nmarks, nregs>>

infoVars == <<info, pkgA, pkgB>>

solVars == <<sol, wire, dec>>

pduVars == <<call, req, frame>>

flowVars == <<folt, fonus, prof, refTbl, hwProfiles, s3, s3log, ninv>>

rxVars == <<rx>>

adVars == <<ad>>

kpVars == <<kp>>

docVars == <<doc>>

vars == <<tagVars, dispVars, seqVars, chanVars, hdlVars, ioVars, ledgerVars,
          infoVars, solVars, pduVars, flowVars, rxVars, adVars, kpVars,
          docVars>>

\* What the operations of one part of the program leave alone.
notTagVars == <<dispVars, seqVars, chanVars, hdlVars, ioVars, ledgerVars,
                infoVars, solVars, pduVars, flowVars, rxVars, adVars, kpVars,
                docVars>>
notDispVars == <<tagVars, seqVars, chanVars, hdlVars, ioVars, ledgerVars,
                 infoVars, solVars, pduVars, flowVars, rxVars, adVars,
                 kpVars, docVars>>
notSeqVars == <<tagVars, dispVars, chanVars, hdlVars, ioVars, ledgerVars,
                infoVars, solVars, pduVars, flowVars, rxVars, adVars, kpVars,
                docVars>>
notChanVars == <<tagVars, dispVars, seqVars, hdlVars, ioVars, ledgerVars,
                 infoVars, solVars, pduVars, flowVars, rxVars, adVars,
                 kpVars, docVars>>
notHdlVars == <<tagVars, dispVars, seqVars, chanVars, ioVars, ledgerVars,
                infoVars, solVars, pduVars, flowVars, rxVars, adVars, kpVars,
                docVars>>
notIoVars == <<tagVars, dispVars, seqVars, chanVars, hdlVars, ledgerVars,
               infoVars, solVars, pduVars, flowVars, rxVars, adVars, kpVars,
               docVars>>
notLedgerVars == <<tagVars, dispVars, seqVars, chanVars, hdlVars, ioVars,
                   infoVars, solVars, pduVars, flowVars, rxVars, adVars,
                   kpVars, docVars>>
notInfoVars == <<tagVars, dispVars, seqVars, chanVars, hdlVars, ioVars,
                 ledgerVars, solVars, pduVars, flowVars, rxVars, adVars,
                 kpVars, docVars>>
notSolVars == <<tagVars, dispVars, seqVars, chanVars, hdlVars, ioVars,
                ledgerVars, infoVars, pduVars, flowVars, rxVars, adVars,
                kpVars, docVars>>
notPduVars == <<tagVars, dispVars, seqVars, chanVars, hdlVars, ioVars,
                ledgerVars, infoVars, solVars, flowVars, rxVars, adVars,
                kpVars, docVars>>
notTagPduVars == <<dispVars, seqVars, chanVars, hdlVars, ioVars, ledgerVars,
                   infoVars, solVars, flowVars, rxVars, adVars, kpVars,
                   docVars>>
notFlowVars == <<tagVars, dispVars, seqVars, chanVars, hdlVars, ioVars,
                 ledgerVars, infoVars, solVars, pduVars, rxVars, adVars,
                 kpVars, docVars>>
notRxVars == <<tagVars, dispVars, seqVars, chanVars, hdlVars, ioVars,
               ledgerVars, infoVars, solVars, pduVars, flowVars, adVars,
               kpVars, docVars>>
notAdVars == <<tagVars, dispVars, seqVars, chanVars, hdlVars, ioVars,
               ledgerVars, infoVars, solVars, pduVars, flowVars, rxVars,
               kpVars, docVars>>
notKpVars == <<tagVars, dispVars, seqVars, chanVars, hdlVars, ioVars,
               ledgerVars, infoVars, solVars, pduVars, flowVars, rxVars,
               adVars, docVars>>
notDocVars == <<tagVars, dispVars, seqVars, chanVars, hdlVars, ioVars,
                ledgerVars, infoVars, solVars, pduVars, flowVars, rxVars,
                adVars, kpVars>>

----------------------------------------------------------------------------
(***************************************************************************)
(* Correlation-tag allocator and the request generators.                   *)
(***************************************************************************)
U32(h, l) == [hi |-> h, lo |-> l]
InitialInstance == U32(InitialInstanceHi, InitialInstanceLo)
PcscompuCTInstance == U32(0, PcscompuCTInstanceLo)

\* x + 1 in uint32 arithmetic
Inc32(x) ==
    IF x.lo = Half - 1 THEN U32((x.hi + 1) % Half, 0) ELSE U32(x.hi, x.lo + 1)

\* x + n in uint32 arithmetic
RECURSIVE Add32(_, _)
Add32(x, n) == IF n = 0 THEN x ELSE Add32(Inc32(x), n - 1)

\* a < b on uint32
Lt32(a, b) == a.hi < b.hi \/ (a.hi = b.hi /\ a.lo < b.lo)

Tasks == {"t1", "t2"}
NoTask == "none"

\* Generators of OLT-management (TOMI) requests and where their
\* correlation-tag instance comes from.
AllocGenerators == {"GnerateGetVendorName", "GenerateGetSerialNumber",
                    "GenerateSetActionReset"}
LiteralGenerators == {"GeneratePcscompuTivitcom"}
Generators == AllocGenerators \cup LiteralGenerators

\* instanceMutex.Lock() succeeds only when nobody holds the mutex.
instanceMutexFree_nolock == TRUE
instanceMutexFree == instanceMutex = NoTask

\* A task starts building a request with generator g.
StartGenerate(t, g) ==
    /\ tpc[t] = "idle"
    /\ Len(pdus) + Cardinality({u \in Tasks : tpc[u] # "idle"}) < MaxCalls
    /\ tgen' = [tgen EXCEPT ![t] = g]
    /\ IF g \in LiteralGenerators
         THEN /\ pdus' = Append(pdus, <<g, PcscompuCTInstance>>)
              /\ UNCHANGED tpc
         ELSE /\ tpc' = [tpc EXCEPT ![t] = "lock"]
              /\ UNCHANGED pdus
    /\ UNCHANGED <<instance, instanceMutex, tlocal, returned>>
    /\ UNCHANGED notTagVars

\* getOltInstance: instanceMutex.Lock()
Lock(t) ==
    /\ tpc[t] = "lock"
    /\ instanceMutexFree
    /\ instanceMutex' = t
    /\ tpc' = [tpc EXCEPT ![t] = "load"]
    /\ UNCHANGED <<instance, tgen, tlocal, returned, pdus>>
    /\ UNCHANGED notTagVars

\* instance = instance + 1, the read of the right-hand side
Load(t) ==
    /\ tpc[t] = "load"
    /\ tlocal' = [tlocal EXCEPT ![t] = instance]
    /\ tpc' = [tpc EXCEPT ![t] = "store"]
    /\ UNCHANGED <<instance, instanceMutex, tgen, returned, pdus>>
    /\ UNCHANGED notTagVars

\* instance = instance + 1, the write (uint32 arithmetic)
Store(t) ==
    /\ tpc[t] = "store"
    /\ instance' = Inc32(tlocal[t])
    /\ tpc' = [tpc EXCEPT ![t] = "ret"]
    /\ UNCHANGED <<instanceMutex, tgen, tlocal, returned, pdus>>
    /\ UNCHANGED notTagVars

\* return instance; the deferred Unlock runs after the result is read.
\* The generator stores the result in the request's CTInstance.
Return(t) ==
    /\ tpc[t] = "ret"
    /\ returned' = Append(returned, instance)
    /\ pdus' = Append(pdus, <<tgen[t], instance>>)
    /\ instanceMutex' = IF instanceMutex = t THEN NoTask ELSE instanceMutex
    /\ tpc' = [tpc EXCEPT ![t] = "idle"]
    /\ UNCHANGED <<instance, tgen, tlocal>>
    /\ UNCHANGED notTagVars

InitTag ==
    /\ instance = InitialInstance
    /\ instanceMutex = NoTask
    /\ tpc = [t \in Tasks |-> "idle"]
    /\ tgen = [t \in Tasks |-> "GnerateGetVendorName"]
    /\ tlocal = [t \in Tasks |-> U32(0, 0)]
    /\ returned = <<>>
    /\ pdus = <<>>

NextTag ==
    \/ \E t \in Tasks, g \in Generators : StartGenerate(t, g)
    \/ \E t \in Tasks : Lock(t)
    \/ \E t \in Tasks : Load(t)
    \/ \E t \in Tasks : Store(t)
    \/ \E t \in Tasks : Return(t)


----------------------------------------------------------------------------
(***************************************************************************)
(* Inbound dispatcher.                                                     *)
(***************************************************************************)
Macs == {"m1", "m2"}

vlanEnable == TRUE

\* Frames as the packet source yields them.  innerType is the EtherType
\* carried behind an outer S-tag; opcode and oampduCode are payload bytes 0
\* and 3 of a slow-protocol frame.
OamHeads == {<<3, 0>>, <<3, 254>>, <<1, 0>>}
Frames ==
    {[src |-> m, etherType |-> EthernetTypeQinQ, innerType |-> it,
      opcode |-> h[1], oampduCode |-> h[2]] :
        m \in Macs,
        it \in {EthernetTypeEAPOL, EthernetTypeDot1Q, EthernetTypeOther},
        h \in {<<3, 0>>}}
    \cup
    {[src |-> m, etherType |-> EthernetTypeQinQ, innerType |-> EthernetTypeOAM,
      opcode |-> h[1], oampduCode |-> h[2]] : m \in Macs, h \in OamHeads}
    \cup
    {[src |-> m, etherType |-> et, innerType |-> et,
      opcode |-> h[1], oampduCode |-> h[2]] :
        m \in Macs,
        et \in {EthernetTypeEAPOL, EthernetTypeDot1Q, EthernetTypeOAM},
        h \in {<<3, 0>>}}

\* FindL2oamDevice(mac) # nil
FindL2oamDevice(mac) == mac \in registry

\* Calls dispatch makes for a slow-protocol frame of an unregistered
\* source: none, it logs and returns.
OamUnknownSource_packetIn == <<"packetIn">>
OamUnknownSource == <<>>

\* Calls dispatch makes for an EAPOL or C-tag frame of a registered source.
EapolKnownSource_both == <<"receiveEapol", "packetIn">>
EapolKnownSource == <<"receiveEapol">>

\* The keep-alive test of dispatch on payload bytes 0 and 3.
IsKeepAlive_opcodeOnly(f) == f.opcode = 3
IsKeepAlive(f) == f.opcode = 3 /\ f.oampduCode = 0

\* dispatch: the calls made for a frame, by EtherType, source and opcode.
dispatch(f) ==
    IF f.etherType = EthernetTypeEAPOL
      THEN IF ~FindL2oamDevice(f.src) THEN <<"packetIn">> ELSE EapolKnownSource
    ELSE IF f.etherType = EthernetTypeOAM
      THEN IF ~FindL2oamDevice(f.src) THEN OamUnknownSource
           ELSE IF IsKeepAlive(f) THEN <<"recieveKeepAlive">>
           ELSE <<"recieve">>
    ELSE IF f.etherType = EthernetTypeDot1Q
      THEN IF ~FindL2oamDevice(f.src) THEN <<"packetIn">> ELSE EapolKnownSource
    ELSE <<>>

\* dispatchVlan: strip the outer S-tag and dispatch, discard anything else.
dispatchVlan(f) ==
    IF f.etherType = EthernetTypeQinQ
      THEN dispatch([f EXCEPT !.etherType = f.innerType])
      ELSE <<>>

\* The packet source yields a frame.
Capture(f) ==
    /\ arrived < MaxFrames
    /\ arrived' = arrived + 1
    /\ inbound' = Append(inbound, [frame |-> f, no |-> arrived + 1])
    /\ UNCHANGED <<registry, delivered>>
    /\ UNCHANGED notDispVars

\* packet := <-packetSource.Packets(): the frame the loop takes from the
\* packets the source holds, and the packets left.
TakeFrame_newest(q) == [pkt |-> q[Len(q)], rest |-> SubSeq(q, 1, Len(q) - 1)]
TakeFrame(q) == [pkt |-> Head(q), rest |-> Tail(q)]

\* startThread, the receive case of the select: one frame is dispatched.
startThread ==
    /\ inbound # <<>>
    /\ LET f == TakeFrame(inbound).pkt.frame
           calls == IF vlanEnable THEN dispatchVlan(f) ELSE dispatch(f)
       IN  delivered' = Append(delivered,
               [frame |-> f, known |-> FindL2oamDevice(f.src),
                calls |-> calls, no |-> TakeFrame(inbound).pkt.no])
    /\ inbound' = TakeFrame(inbound).rest
    /\ UNCHANGED <<registry, arrived>>
    /\ UNCHANGED notDispVars

\* A device record is entered in the registry under its MAC.
AddDevice(m) ==
    /\ m \notin registry
    /\ registry' = registry \cup {m}
    /\ UNCHANGED <<inbound, arrived, delivered>>
    /\ UNCHANGED notDispVars

\* A device record is removed from the registry.
DeleteDevice(m) ==
    /\ m \in registry
    /\ registry' = registry \ {m}
    /\ UNCHANGED <<inbound, arrived, delivered>>
    /\ UNCHANGED notDispVars

InitDisp ==
    /\ registry = {}
    /\ inbound = <<>>
    /\ arrived = 0
    /\ delivered = <<>>

NextDisp ==
    \/ \E f \in Frames : Capture(f)
    \/ startThread
    \/ \E m \in Macs : AddDevice(m)
    \/ \E m \in Macs : DeleteDevice(m)

----------------------------------------------------------------------------
(***************************************************************************)
(* Sequencer scripts.  A script runs on the caller's task; every send step *)
(* is device.send followed by device.waitResponse(ResponseTimer), whose    *)
(* outcome is a response, a Set-Response carrying a non-zero result code,  *)
(* or a timeout.                                                           *)
(***************************************************************************)
Onus == {"onuA", "onuB"}

\* dh.coreProxy.GetChildDevices: the child ONUs of the OLT, in a fixed order
ChildDevices == <<"onuA", "onuB">>

ActionIDFilterPonPort == 1
ActionIDFilterEthPort == 2

NilIds == <<>>           \* Base.ActionIds == nil
NilOC == 0               \* getObjectContext() == nil

\* Requests whose answer is a Set-Response with a result code.
SetKinds == {"SetHbtxPeriod", "SetHbtxTemplate", "SetMPCPSync",
             "SetAdminState", "SetAdminStateDelete", "SetIngressPort",
             "SetCaptureProtocols", "InletEntryDs", "SetDefaultOutlet",
             "InletEntryUs", "ActionDeleteProtocolFilter", "InletEntryDsDel",
             "InletEntryUsDel", "ActionDeleteStream", "SetManagementLock"}

\* Outcomes of waitResponse for a request of the given kind.
Outcomes(kind) ==
    IF kind \in SetKinds THEN {"ok", "reject", "timeout"} ELSE {"ok", "timeout"}

\* What the send function of a kind hands to its caller when waitResponse
\* returned an error: an error, a nil result, or nil as if nothing happened.
IngressPortTimeoutReturn == "nil"

TimeoutReturn(kind) ==
    CASE kind \in {"SetIngressPort", "SetCaptureProtocols"}
             -> IngressPortTimeoutReturn
      [] kind \in {"GenericActionCreateProtocolFilter"} -> "nilResult"
      [] OTHER -> "error"

\* Value a send function returns for an outcome of waitResponse.  The result
\* code of a Set-Response is not looked at.
StepReturn(kind, out) == IF out = "timeout" THEN TimeoutReturn(kind) ELSE "nil"

\* Smallest identifier the OLT has not handed out among ids.
RECURSIVE FreshFrom(_, _)
FreshFrom(ids, n) == IF n \in ids THEN FreshFrom(ids, n + 1) ELSE n
FreshId(ids) == FreshFrom(ids, 1)

FilterIds == {f[2] : f \in hw.filters}

Idle == [cmd |-> "idle", pc |-> 0, at |-> "", onu |-> "none", list |-> <<>>,
         rm |-> <<>>, pon |-> 0, eth |-> 0, oc |-> 0, clean |-> TRUE,
         reg |-> {}, ocBefore |-> 0, stage |-> 0, added |-> {},
         oltAdded |-> FALSE]

\* Bookkeeping common to every send step.
Record(kind, out) ==
    /\ sent' = Append(sent, kind)
    /\ stepLog' = [kind |-> kind, out |-> out, ret |-> StepReturn(kind, out)]
    /\ firstFail' = IF firstFail = 0 /\ out = "timeout"
                      THEN Len(sent) + 1 ELSE firstFail

\* A northbound command starts: the logs of the previous one are cleared.
Begin ==
    /\ seq.cmd = "idle"
    /\ ncmds < MaxCmds
    /\ ncmds' = ncmds + 1

\* A command that returns before its first request.
ReturnAtOnce(res) ==
    /\ sent' = <<>>
    /\ firstFail' = 0
    /\ result' = res
    /\ UNCHANGED <<olt, onus, hw, seq, stepLog>>

----------------------------------------------------------------------------
\* L2oamGetDeviceInfo
GDISteps == <<"DiscoverySolicit", "GetVendorName", "GetModuleNumber",
              "ManuFacturerInfo", "GetFirmwareVersion", "GetMacAddress",
              "GetSerialNumber">>

\* FindL2oamDevice(dstMac); NewL2oamOltDevice and startKeepAlive when absent.
L2oamGetDeviceInfo ==
    /\ Begin
    /\ lastCmd' = "GetDeviceInfo"
    /\ olt' = [olt EXCEPT !.exists = TRUE]
    /\ seq' = [Idle EXCEPT !.cmd = "GetDeviceInfo", !.pc = 1]
    /\ sent' = <<>>
    /\ firstFail' = 0
    /\ result' = "running"
    /\ UNCHANGED <<onus, hw, stepLog, flowCalls>>
    /\ UNCHANGED notSeqVars

\* sendDiscoverySOLICIT, sendGetVendorName, ..., sendGetSerialNumber: an
\* error of a step is logged and the next step follows; after the last one
\* setActiveState(true) and return deviceInfo, nil.
GetDeviceInfoStep ==
    /\ seq.cmd = "GetDeviceInfo"
    /\ \E out \in Outcomes(GDISteps[seq.pc]) :
        /\ Record(GDISteps[seq.pc], out)
        /\ IF seq.pc < Len(GDISteps)
             THEN /\ seq' = [seq EXCEPT !.pc = seq.pc + 1]
                  /\ UNCHANGED <<olt, result>>
             ELSE /\ seq' = Idle
                  /\ olt' = [olt EXCEPT !.active = TRUE]
                  /\ result' = "nil"
    /\ UNCHANGED <<onus, hw, ncmds, lastCmd, flowCalls>>
    /\ UNCHANGED notSeqVars

----------------------------------------------------------------------------
\* L2oamEnableIndication
ENSteps == <<"SetHbtxPeriod", "SetHbtxTemplate", "GetPonMode", "SetMPCPSync",
             "SetAdminStateDelete",
             "GenericActionCreateProtocolFilter", "SetIngressPort",
             "SetCaptureProtocols",
             "GenericActionCreateProtocolFilter", "SetIngressPort",
             "SetCaptureProtocols",
             "SetAdminState">>
ENCreatePon == 6
ENCreateEth == 9
ENLastFilterStep_atEnd == Len(ENSteps)
ENLastFilterStep == 11

\* FindL2oamDeviceByDeviceID(dh.device.Id); return when the OLT is not found.
L2oamEnableIndication ==
    /\ Begin
    /\ lastCmd' = "EnableIndication"
    /\ IF ~olt.exists
         THEN ReturnAtOnce("void")
         ELSE /\ seq' = [Idle EXCEPT !.cmd = "EnableIndication", !.pc = 1]
              /\ sent' = <<>>
              /\ firstFail' = 0
              /\ result' = "running"
              /\ UNCHANGED <<olt, onus, hw, stepLog>>
    /\ UNCHANGED flowCalls
    /\ UNCHANGED notSeqVars

\* The ActionIds table written after the requests of the second filter.
ActionIdsAfterEnable(p, e) ==
    [k \in {ActionIDFilterPonPort, ActionIDFilterEthPort} |->
        IF k = ActionIDFilterPonPort THEN p ELSE e]

\* One request of the enable script and the code up to the next request.
EnableIndicationStep ==
    /\ seq.cmd = "EnableIndication"
    /\ LET i == seq.pc
           kind == ENSteps[i]
       IN \E out \in Outcomes(kind) :
           /\ Record(kind, out)
           /\ IF i \in {ENCreatePon, ENCreateEth}
                THEN \* sendSetGenericActionCreate: nil on timeout, return
                     IF out = "timeout"
                       THEN /\ seq' = Idle
                            /\ result' = "void"
                            /\ UNCHANGED <<olt, hw>>
                       ELSE LET id == FreshId(FilterIds)
                                slot == IF i = ENCreatePon
                                          THEN ActionIDFilterPonPort
                                          ELSE ActionIDFilterEthPort
                            IN /\ hw' = [hw EXCEPT !.filters =
                                            @ \cup {<<slot, id>>}]
                               /\ seq' = IF i = ENCreatePon
                                   THEN [seq EXCEPT !.pc = i + 1, !.pon = id]
                                   ELSE [seq EXCEPT !.pc = i + 1, !.eth = id]
                               /\ UNCHANGED <<olt, result>>
              ELSE IF i = ENLastFilterStep
                THEN \* ActionIds = make(map); both entries; updateMap
                     /\ olt' = [olt EXCEPT !.ActionIds =
                                   ActionIdsAfterEnable(seq.pon, seq.eth)]
                     /\ seq' = [seq EXCEPT !.pc = i + 1]
                     /\ UNCHANGED <<hw, result>>
              ELSE IF i = Len(ENSteps)
                THEN \* setAutonomousFlag(true), end of the script
                     /\ olt' = [olt EXCEPT !.autonomous = TRUE]
                     /\ seq' = Idle
                     /\ result' = "void"
                     /\ UNCHANGED hw
              ELSE /\ seq' = [seq EXCEPT !.pc = i + 1]
                   /\ UNCHANGED <<olt, hw, result>>
    /\ UNCHANGED <<onus, ncmds, lastCmd, flowCalls>>
    /\ UNCHANGED notSeqVars

----------------------------------------------------------------------------
\* L2oamDisableDevice
DISteps_lockFirst ==
    <<"ActionDeleteProtocolFilter", "ActionDeleteProtocolFilter",
      "SetManagementLock", "SetAdminStateDelete">>
DISteps == <<"ActionDeleteProtocolFilter", "ActionDeleteProtocolFilter",
             "SetAdminStateDelete", "SetManagementLock">>
DIAdmin == 3

\* olt.(*L2oamOltDevice) on a nil interface value panics; with ActionIds nil
\* the script starts at Set-Admin-State.
L2oamDisableDevice ==
    /\ Begin
    /\ lastCmd' = "DisableDevice"
    /\ IF ~olt.exists
         THEN ReturnAtOnce("panic")
         ELSE /\ seq' = [Idle EXCEPT !.cmd = "DisableDevice",
                           !.pc = IF olt.ActionIds # NilIds
                                    THEN (IF ActionIDFilterPonPort
                                              \in DOMAIN olt.ActionIds
                                            THEN 1 ELSE 2)
                                    ELSE DIAdmin]
              /\ sent' = <<>>
              /\ firstFail' = 0
              /\ result' = "running"
              /\ UNCHANGED <<olt, onus, hw, stepLog>>
    /\ UNCHANGED flowCalls
    /\ UNCHANGED notSeqVars

\* Whether the table is cleared after the deletes of both actions.
ClearActionIds(ids) == NilIds

\* One request of the disable script and the code up to the next request.
DisableDeviceStep ==
    /\ seq.cmd = "DisableDevice"
    /\ LET i == seq.pc
           kind == DISteps[i]
       IN \E out \in Outcomes(kind) :
           /\ Record(kind, out)
           /\ IF i \in {1, 2}
                THEN LET slot == IF i = 1 THEN ActionIDFilterPonPort
                                          ELSE ActionIDFilterEthPort
                         id == olt.ActionIds[slot]
                     IN IF out = "timeout"
                          THEN \* sendSetActionDelete returned an error: return
                               /\ seq' = Idle
                               /\ result' = "void"
                               /\ UNCHANGED <<olt, hw>>
                          ELSE /\ hw' = IF out = "ok"
                                   THEN [hw EXCEPT !.filters =
                                            {f \in @ : f[2] # id}]
                                   ELSE hw
                               /\ IF i = 1 /\ ActionIDFilterEthPort
                                               \in DOMAIN olt.ActionIds
                                    THEN /\ seq' = [seq EXCEPT !.pc = 2]
                                         /\ UNCHANGED olt
                                    ELSE /\ seq' = [seq EXCEPT !.pc = DIAdmin]
                                         /\ olt' = [olt EXCEPT !.ActionIds =
                                                ClearActionIds(@)]
                               /\ UNCHANGED result
              ELSE IF i = Len(DISteps)
                THEN /\ seq' = Idle
                     /\ result' = "void"
                     /\ UNCHANGED <<olt, hw>>
              ELSE /\ seq' = [seq EXCEPT !.pc = i + 1]
                   /\ UNCHANGED <<olt, hw, result>>
    /\ UNCHANGED <<onus, ncmds, lastCmd, flowCalls>>
    /\ UNCHANGED notSeqVars

----------------------------------------------------------------------------
\* L2oamCmdRequest "add-flow-dev": L2oamAddFlowToDeviceAll, which runs
\* L2oamRemoveFlowFromDevice and then L2oamAddFlowToDevice for every ONU of
\* its list.

Registered(o) == onus[o].state = "registered"

\* The ONUs L2oamRemoveFlowFromDevice sends Inlet-Entry-Delete (US) for: the
\* children that have a record, FlowAdded and an object context.
RECURSIVE FlowAddedOnus(_)
FlowAddedOnus_none(cs) == <<>>
FlowAddedOnus(cs) ==
    IF cs = <<>> THEN <<>>
    ELSE IF Registered(Head(cs)) /\ onus[Head(cs)].FlowAdded
           THEN <<Head(cs)>> \o FlowAddedOnus(Tail(cs))
           ELSE FlowAddedOnus(Tail(cs))

\* Whether L2oamAddFlowToDeviceAll tears the flows down before adding: it
\* does when the OLT holds a switching-domain object context.
RemoveBeforeAdd_never(oc) == FALSE
RemoveBeforeAdd(oc) == oc # NilOC

\* onuList of L2oamAddFlowToDeviceAll: the ONUs that have FlowAdded, and the
\* ONU of the command unless it is among them.
RECURSIVE HasFlowRecord(_)
HasFlowRecord(cs) ==
    IF cs = <<>> THEN <<>>
    ELSE IF onus[Head(cs)].state # "absent" /\ onus[Head(cs)].FlowAdded
           THEN <<Head(cs)>> \o HasFlowRecord(Tail(cs))
           ELSE HasFlowRecord(Tail(cs))

OnuList(o, oc) ==
    IF RemoveBeforeAdd(oc)
      THEN LET added == HasFlowRecord(ChildDevices)
           IN IF \E k \in 1..Len(added) : added[k] = o
                THEN added ELSE Append(added, o)
      ELSE <<o>>

\* Position of L2oamAddFlowToDevice for the ONUs left in list, with the
\* object context the OLT record holds: Generic-Action-Create when there is
\* none, else Set-Default-Outlet for the first ONU that has a record and an
\* object context; an ONU without is passed over.
RECURSIVE AddNext(_, _)
AddNext_noLookup(list, oc) ==
    IF list = <<>> THEN [at |-> "done", list |-> <<>>]
    ELSE IF oc = NilOC THEN [at |-> "add_create", list |-> list]
    ELSE [at |-> "add_outlet", list |-> list]
AddNext(list, oc) ==
    IF list = <<>> THEN [at |-> "done", list |-> <<>>]
    ELSE IF oc = NilOC THEN [at |-> "add_create", list |-> list]
    ELSE IF Registered(Head(list)) THEN [at |-> "add_outlet", list |-> list]
    ELSE AddNext(Tail(list), oc)

\* Where the script goes when the tear-down part is over or skipped.
ToAdd(list, oc) ==
    LET n == AddNext(list, oc)
    IN IF n.at = "done" THEN Idle
       ELSE [seq EXCEPT !.cmd = "AddFlowDev", !.at = n.at, !.list = n.list]

FlowCall(o, s, c, r, b) ==
    [onu |-> o, sent |-> s, clean |-> c, registered |-> r, ocBefore |-> b]

\* The script ends: L2oamAddFlowToDeviceAll and L2oamCmdRequest return nil.
Finish(nseq, nsent, nclean) ==
    IF nseq.cmd = "idle"
      THEN /\ result' = "nil"
           /\ flowCalls' = Append(flowCalls,
                 FlowCall(seq.onu, nsent, nclean, seq.reg, seq.ocBefore))
      ELSE UNCHANGED <<result, flowCalls>>

L2oamAddFlowToDeviceAll(o) ==
    /\ Begin
    /\ lastCmd' = "AddFlowDev"
    /\ IF ~olt.exists \/ onus[o].state = "absent"
         THEN /\ ReturnAtOnce("nil")
              /\ UNCHANGED flowCalls
         ELSE LET list == OnuList(o, olt.oc)
                  rm == FlowAddedOnus(ChildDevices)
                  start == [Idle EXCEPT !.cmd = "AddFlowDev", !.onu = o,
                               !.reg = {u \in Onus : Registered(u)},
                               !.ocBefore = olt.oc,
                               !.added = {u \in Onus : onus[u].FlowAdded},
                               !.oltAdded = olt.FlowAdded]
                  nseq ==
                    IF RemoveBeforeAdd(olt.oc) /\ olt.cmd
                      THEN IF rm # <<>>
                             THEN [start EXCEPT !.at = "rm_us", !.rm = rm,
                                                !.list = list]
                           ELSE IF olt.FlowAdded
                             THEN [start EXCEPT !.at = "rm_ds", !.list = list]
                           ELSE LET n == AddNext(list, olt.oc)
                                IN [start EXCEPT !.at = n.at, !.list = n.list]
                      ELSE LET n == AddNext(list, olt.oc)
                           IN [start EXCEPT !.at = n.at, !.list = n.list]
              IN /\ sent' = <<>>
                 /\ firstFail' = 0
                 /\ IF nseq.at = "done"
                      THEN /\ seq' = Idle
                           /\ result' = "nil"
                           /\ flowCalls' = Append(flowCalls,
                                 FlowCall(o, <<>>, TRUE, start.reg, olt.oc))
                      ELSE /\ seq' = nseq
                           /\ result' = "running"
                           /\ UNCHANGED flowCalls
                 /\ UNCHANGED <<olt, onus, hw, stepLog>>
    /\ UNCHANGED flowCalls
    /\ UNCHANGED notSeqVars

\* L2oamRemoveFlowFromDevice, the loop over the ONUs:
\* sendSetActionInletEntryUsDel, FlowAdded = false.
RemoveFlowUsStep ==
    /\ seq.cmd = "AddFlowDev" /\ seq.at = "rm_us"
    /\ \E out \in Outcomes("InletEntryUsDel") :
        LET o == Head(seq.rm)
            rest == Tail(seq.rm)
            nseq == IF rest # <<>> THEN [seq EXCEPT !.rm = rest]
                    ELSE IF olt.FlowAdded
                      THEN [seq EXCEPT !.rm = rest, !.at = "rm_ds"]
                    ELSE ToAdd(seq.list, olt.oc)
            ncl == seq.clean /\ out = "ok"
        IN /\ Record("InletEntryUsDel", out)
           /\ onus' = [onus EXCEPT ![o].FlowAdded = FALSE]
           /\ hw' = IF out = "ok"
                      THEN [hw EXCEPT !.inletUs = @ \ {<<olt.oc, o>>}]
                      ELSE hw
           /\ seq' = IF nseq.cmd = "idle" THEN Idle
                     ELSE [nseq EXCEPT !.clean = ncl]
           /\ Finish(nseq, Append(sent, "InletEntryUsDel"), ncl)
    /\ UNCHANGED <<olt, ncmds, lastCmd>>
    /\ UNCHANGED notSeqVars

\* L2oamRemoveFlowFromDevice, the OLT: sendSetActionInletEntryDsDel
RemoveFlowDsStep ==
    /\ seq.cmd = "AddFlowDev" /\ seq.at = "rm_ds"
    /\ \E out \in Outcomes("InletEntryDsDel") :
        /\ Record("InletEntryDsDel", out)
        /\ hw' = IF out = "ok" THEN [hw EXCEPT !.inletDs = @ \ {olt.oc}]
                               ELSE hw
        /\ seq' = [seq EXCEPT !.at = "rm_stream",
                              !.clean = seq.clean /\ out = "ok"]
    /\ UNCHANGED <<olt, onus, result, flowCalls, ncmds, lastCmd>>
    /\ UNCHANGED notSeqVars

\* sendSetActionDeleteStream, setObjectContext(nil), FlowAdded = false
RemoveFlowStreamStep ==
    /\ seq.cmd = "AddFlowDev" /\ seq.at = "rm_stream"
    /\ \E out \in Outcomes("ActionDeleteStream") :
        LET nseq == ToAdd(seq.list, NilOC)
            ncl == seq.clean /\ out = "ok"
        IN /\ Record("ActionDeleteStream", out)
           /\ hw' = IF out = "ok"
                      THEN [hw EXCEPT !.domains = @ \ {olt.oc},
                                      !.inletDs = @ \ {olt.oc},
                                      !.inletUs = {e \in @ : e[1] # olt.oc}]
                      ELSE hw
           /\ olt' = [olt EXCEPT !.oc = NilOC, !.FlowAdded = FALSE]
           /\ seq' = IF nseq.cmd = "idle" THEN Idle
                     ELSE [nseq EXCEPT !.clean = ncl]
           /\ Finish(nseq, Append(sent, "ActionDeleteStream"), ncl)
    /\ UNCHANGED <<onus, ncmds, lastCmd>>
    /\ UNCHANGED notSeqVars

\* L2oamAddFlowToDevice: sendSetGenericActionCreateForDS.  Without an
\* answer the call returns an error and the list goes on with the next ONU.
AddFlowCreateStep ==
    /\ seq.cmd = "AddFlowDev" /\ seq.at = "add_create"
    /\ \E out \in Outcomes("GenericActionCreateDs") :
        LET d == FreshId(hw.domains)
            nseq == IF out = "ok"
                      THEN [seq EXCEPT !.at = "add_ds", !.oc = d]
                      ELSE ToAdd(Tail(seq.list), NilOC)
            ncl == seq.clean /\ out = "ok"
        IN /\ Record("GenericActionCreateDs", out)
           /\ hw' = IF out = "ok" THEN [hw EXCEPT !.domains = @ \cup {d}]
                                  ELSE hw
           /\ seq' = IF nseq.cmd = "idle" THEN Idle
                     ELSE [nseq EXCEPT !.clean = ncl]
           /\ Finish(nseq, Append(sent, "GenericActionCreateDs"), ncl)
    /\ UNCHANGED <<olt, onus, ncmds, lastCmd>>
    /\ UNCHANGED notSeqVars

\* sendSetL2SwitchingDomainForDS, setL2oamCmd, setObjectContext, FlowAdded
AddFlowDsStep ==
    /\ seq.cmd = "AddFlowDev" /\ seq.at = "add_ds"
    /\ \E out \in Outcomes("InletEntryDs") :
        LET nseq == IF Registered(Head(seq.list))
                      THEN [seq EXCEPT !.at = "add_outlet"]
                      ELSE ToAdd(Tail(seq.list), seq.oc)
            ncl == seq.clean /\ out = "ok"
        IN /\ Record("InletEntryDs", out)
           /\ hw' = IF out = "ok" THEN [hw EXCEPT !.inletDs = @ \cup {seq.oc}]
                                  ELSE hw
           /\ olt' = [olt EXCEPT !.cmd = TRUE, !.oc = seq.oc,
                                 !.FlowAdded = TRUE]
           /\ seq' = IF nseq.cmd = "idle" THEN Idle
                     ELSE [nseq EXCEPT !.clean = ncl]
           /\ Finish(nseq, Append(sent, "InletEntryDs"), ncl)
    /\ UNCHANGED <<onus, ncmds, lastCmd>>
    /\ UNCHANGED notSeqVars

\* sendSetDefaultOutlet
AddFlowOutletStep ==
    /\ seq.cmd = "AddFlowDev" /\ seq.at = "add_outlet"
    /\ \E out \in Outcomes("SetDefaultOutlet") :
        /\ Record("SetDefaultOutlet", out)
        /\ seq' = [seq EXCEPT !.at = "add_us",
                              !.clean = seq.clean /\ out = "ok"]
    /\ UNCHANGED <<olt, onus, hw, result, flowCalls, ncmds, lastCmd>>
    /\ UNCHANGED notSeqVars

\* sendSetL2SwitchingDomainForUS, then the ONU is marked FlowAdded
AddFlowUsStep ==
    /\ seq.cmd = "AddFlowDev" /\ seq.at = "add_us"
    /\ \E out \in Outcomes("InletEntryUs") :
        LET o == Head(seq.list)
            nseq == ToAdd(Tail(seq.list), olt.oc)
            ncl == seq.clean /\ out = "ok"
        IN /\ Record("InletEntryUs", out)
           /\ hw' = IF out = "ok"
                      THEN [hw EXCEPT !.inletUs = @ \cup {<<olt.oc, o>>}]
                      ELSE hw
           /\ onus' = [onus EXCEPT ![o].FlowAdded = TRUE]
           /\ seq' = IF nseq.cmd = "idle" THEN Idle
                     ELSE [nseq EXCEPT !.clean = ncl]
           /\ Finish(nseq, Append(sent, "InletEntryUs"), ncl)
    /\ UNCHANGED <<olt, ncmds, lastCmd>>
    /\ UNCHANGED notSeqVars

----------------------------------------------------------------------------
\* ONU records.  An ONU record is created by the registration handling and
\* gets its object context (its instance) from the registration event.
----------------------------------------------------------------------------
\* RebootDevice: L2oamRebootDevice, which runs L2oamDisableOlt and then
\* sendSetActionReset.  No traffic profile exists in this model, so
\* L2oamRemoveFlow sends nothing.

\* The calls of L2oamDisableOlt that send requests, and the reset of
\* L2oamRebootDevice, in the order of the code.
RebootStages_resetFirst == <<"reset", "removeFlow", "childLost", "disable">>
RebootStages == <<"removeFlow", "childLost", "disable", "reset">>

\* The next ONU of L2oamChildDeviceLost: one with a record and an object
\* context.
RECURSIVE LostNext(_)
LostNext(cs) ==
    IF cs = <<>> THEN <<>>
    ELSE IF Registered(Head(cs)) THEN cs
    ELSE LostNext(Tail(cs))

\* Position of the script at the first request of stage k or of a later
\* one; a stage that has nothing to send is passed over.
RECURSIVE RebootEnter(_)
RebootEnter(k) ==
    IF k > Len(RebootStages) THEN Idle
    ELSE LET base == [Idle EXCEPT !.cmd = "Reboot", !.stage = k]
             rm == FlowAddedOnus(ChildDevices)
             lost == LostNext(ChildDevices)
         IN CASE RebootStages[k] = "removeFlow" ->
                   IF rm # <<>> THEN [base EXCEPT !.at = "rb_us", !.rm = rm]
                   ELSE IF olt.FlowAdded THEN [base EXCEPT !.at = "rb_ds"]
                   ELSE RebootEnter(k + 1)
              [] RebootStages[k] = "childLost" ->
                   IF lost # <<>>
                     THEN [base EXCEPT !.at = "rb_lost", !.list = lost]
                     ELSE RebootEnter(k + 1)
              [] RebootStages[k] = "disable" ->
                   [base EXCEPT !.at = "rb_dis",
                       !.pc = IF olt.ActionIds # NilIds
                                THEN (IF ActionIDFilterPonPort
                                          \in DOMAIN olt.ActionIds
                                        THEN 1 ELSE 2)
                                ELSE DIAdmin]
              [] OTHER -> [base EXCEPT !.at = "rb_reset"]

\* RebootDevice returns nil whatever the script did.
RebootGoes(nseq) ==
    /\ seq' = nseq
    /\ result' = IF nseq.cmd = "idle" THEN "nil" ELSE "running"

\* L2oamDisableOlt finds no OLT record and returns, and so does
\* L2oamRebootDevice; else setAutonomousFlag(false) and GetChildDevices.
L2oamRebootDevice ==
    /\ Begin
    /\ lastCmd' = "Reboot"
    /\ IF ~olt.exists
         THEN ReturnAtOnce("nil")
         ELSE /\ olt' = [olt EXCEPT !.autonomous = FALSE]
              /\ RebootGoes(RebootEnter(1))
              /\ sent' = <<>>
              /\ firstFail' = 0
              /\ UNCHANGED <<onus, hw, stepLog>>
    /\ UNCHANGED flowCalls
    /\ UNCHANGED notSeqVars

\* olt.removeFlow, an ONU that has FlowAdded: Inlet-Entry-Delete (up-stream)
RebootRemoveUsStep ==
    /\ seq.cmd = "Reboot" /\ seq.at = "rb_us"
    /\ \E out \in Outcomes("InletEntryUsDel") :
        LET o == Head(seq.rm)
            rest == Tail(seq.rm)
        IN /\ Record("InletEntryUsDel", out)
           /\ onus' = [onus EXCEPT ![o].FlowAdded = FALSE]
           /\ hw' = IF out = "ok"
                      THEN [hw EXCEPT !.inletUs = @ \ {<<olt.oc, o>>}]
                      ELSE hw
           /\ RebootGoes(IF rest # <<>> THEN [seq EXCEPT !.rm = rest]
                         ELSE IF olt.FlowAdded
                           THEN [seq EXCEPT !.rm = rest, !.at = "rb_ds"]
                         ELSE RebootEnter(seq.stage + 1))
    /\ UNCHANGED <<olt, ncmds, lastCmd, flowCalls>>
    /\ UNCHANGED notSeqVars

\* olt.removeFlow, the OLT has FlowAdded: Inlet-Entry-Delete (down-stream)
RebootRemoveDsStep ==
    /\ seq.cmd = "Reboot" /\ seq.at = "rb_ds"
    /\ \E out \in Outcomes("InletEntryDsDel") :
        /\ Record("InletEntryDsDel", out)
        /\ hw' = IF out = "ok" THEN [hw EXCEPT !.inletDs = @ \ {olt.oc}]
                               ELSE hw
        /\ seq' = [seq EXCEPT !.at = "rb_stream"]
    /\ UNCHANGED <<olt, onus, result, ncmds, lastCmd, flowCalls>>
    /\ UNCHANGED notSeqVars

\* olt.removeFlow: Action-Delete-Stream, the flag is cleared and the
\* switching-domain object context dropped.
RebootRemoveStreamStep ==
    /\ seq.cmd = "Reboot" /\ seq.at = "rb_stream"
    /\ \E out \in Outcomes("ActionDeleteStream") :
        /\ Record("ActionDeleteStream", out)
        /\ hw' = IF out = "ok"
                   THEN [hw EXCEPT !.domains = @ \ {olt.oc},
                                   !.inletDs = @ \ {olt.oc},
                                   !.inletUs = {e \in @ : e[1] # olt.oc}]
                   ELSE hw
        /\ olt' = [olt EXCEPT !.oc = NilOC, !.FlowAdded = FALSE]
        /\ RebootGoes(RebootEnter(seq.stage + 1))
    /\ UNCHANGED <<onus, ncmds, lastCmd, flowCalls>>
    /\ UNCHANGED notSeqVars

\* L2oamChildDeviceLost: sendSetActionDeleteOnu for an ONU; its error is
\* logged and the loop goes on.
RebootChildLostStep ==
    /\ seq.cmd = "Reboot" /\ seq.at = "rb_lost"
    /\ \E out \in Outcomes("ActionDeleteOnu") :
        LET rest == LostNext(Tail(seq.list))
        IN /\ Record("ActionDeleteOnu", out)
           /\ RebootGoes(IF rest # <<>> THEN [seq EXCEPT !.list = rest]
                         ELSE RebootEnter(seq.stage + 1))
    /\ UNCHANGED <<olt, onus, hw, ncmds, lastCmd, flowCalls>>
    /\ UNCHANGED notSeqVars

\* L2oamDisableDevice inside L2oamDisableOlt: as DisableDeviceStep, and
\* when it returns, early or not, L2oamDisableOlt and the reboot go on.
RebootDisableStep ==
    /\ seq.cmd = "Reboot" /\ seq.at = "rb_dis"
    /\ LET i == seq.pc
           kind == DISteps[i]
       IN \E out \in Outcomes(kind) :
           /\ Record(kind, out)
           /\ IF i \in {1, 2}
                THEN LET slot == IF i = 1 THEN ActionIDFilterPonPort
                                          ELSE ActionIDFilterEthPort
                         id == olt.ActionIds[slot]
                     IN IF out = "timeout"
                          THEN /\ RebootGoes(RebootEnter(seq.stage + 1))
                               /\ UNCHANGED <<olt, hw>>
                          ELSE /\ hw' = IF out = "ok"
                                   THEN [hw EXCEPT !.filters =
                                            {f \in @ : f[2] # id}]
                                   ELSE hw
                               /\ IF i = 1 /\ ActionIDFilterEthPort
                                               \in DOMAIN olt.ActionIds
                                    THEN /\ seq' = [seq EXCEPT !.pc = 2]
                                         /\ UNCHANGED olt
                                    ELSE /\ seq' = [seq EXCEPT !.pc = DIAdmin]
                                         /\ olt' = [olt EXCEPT !.ActionIds =
                                                ClearActionIds(@)]
                               /\ UNCHANGED result
              ELSE IF i = Len(DISteps)
                THEN /\ RebootGoes(RebootEnter(seq.stage + 1))
                     /\ UNCHANGED <<olt, hw>>
              ELSE /\ seq' = [seq EXCEPT !.pc = i + 1]
                   /\ UNCHANGED <<olt, hw, result>>
    /\ UNCHANGED <<onus, ncmds, lastCmd, flowCalls>>
    /\ UNCHANGED notSeqVars

\* sendSetActionReset; its error is logged.
RebootResetStep ==
    /\ seq.cmd = "Reboot" /\ seq.at = "rb_reset"
    /\ \E out \in Outcomes("SetActionReset") :
        /\ Record("SetActionReset", out)
        /\ RebootGoes(RebootEnter(seq.stage + 1))
    /\ UNCHANGED <<olt, onus, hw, ncmds, lastCmd, flowCalls>>
    /\ UNCHANGED notSeqVars

NewL2oamOnuDevice(o) ==
    /\ onus[o].state = "absent"
    /\ olt.exists
    /\ onus' = [onus EXCEPT ![o].state = "noOC"]
    /\ UNCHANGED <<olt, hw, seq, sent, stepLog, firstFail, result, ncmds,
                   lastCmd, flowCalls>>
    /\ UNCHANGED notSeqVars

OnuRegistration(o) ==
    /\ onus[o].state = "noOC"
    /\ onus' = [onus EXCEPT ![o].state = "registered"]
    /\ UNCHANGED <<olt, hw, seq, sent, stepLog, firstFail, result, ncmds,
                   lastCmd, flowCalls>>
    /\ UNCHANGED notSeqVars

InitSeq ==
    /\ olt = [exists |-> FALSE, active |-> FALSE, autonomous |-> FALSE,
              ActionIds |-> NilIds, FlowAdded |-> FALSE, oc |-> NilOC,
              cmd |-> FALSE]
    /\ onus = [o \in Onus |-> [state |-> "absent", FlowAdded |-> FALSE]]
    /\ hw = [filters |-> {}, domains |-> {}, inletDs |-> {}, inletUs |-> {}]
    /\ seq = Idle
    /\ sent = <<>>
    /\ stepLog = [kind |-> "none", out |-> "none", ret |-> "none"]
    /\ firstFail = 0
    /\ result = "none"
    /\ ncmds = 0
    /\ lastCmd = "none"
    /\ flowCalls = <<>>

NextSeq ==
    \/ L2oamGetDeviceInfo
    \/ GetDeviceInfoStep
    \/ L2oamEnableIndication
    \/ EnableIndicationStep
    \/ L2oamDisableDevice
    \/ DisableDeviceStep
    \/ \E o \in Onus : L2oamAddFlowToDeviceAll(o)
    \/ RemoveFlowUsStep
    \/ RemoveFlowDsStep
    \/ RemoveFlowStreamStep
    \/ AddFlowCreateStep
    \/ AddFlowDsStep
    \/ AddFlowOutletStep
    \/ AddFlowUsStep
    \/ \E o \in Onus : NewL2oamOnuDevice(o)
    \/ \E o \in Onus : OnuRegistration(o)

\* The scripts a reboot can follow, and the reboot.
NextReboot ==
    \/ L2oamGetDeviceInfo
    \/ GetDeviceInfoStep
    \/ L2oamEnableIndication
    \/ EnableIndicationStep
    \/ \E o \in Onus : L2oamAddFlowToDeviceAll(o)
    \/ RemoveFlowUsStep
    \/ RemoveFlowDsStep
    \/ RemoveFlowStreamStep
    \/ AddFlowCreateStep
    \/ AddFlowDsStep
    \/ AddFlowOutletStep
    \/ AddFlowUsStep
    \/ \E o \in Onus : NewL2oamOnuDevice(o)
    \/ \E o \in Onus : OnuRegistration(o)
    \/ L2oamRebootDevice
    \/ RebootRemoveUsStep
    \/ RebootRemoveDsStep
    \/ RebootRemoveStreamStep
    \/ RebootChildLostStep
    \/ RebootDisableStep
    \/ RebootResetStep

----------------------------------------------------------------------------
(***************************************************************************)
(* Request/response channel of a device: device.send followed by           *)
(* device.waitResponse(ResponseTimer), as the send steps of the sequencer  *)
(* (sendGetVendorName, ...) and the ledger poll loop (WatchStatus) use it. *)
(***************************************************************************)
ChanDevices == {"olt", "onu"}
ChanTasks == {"script", "ledger"}

\* Devices a task sends requests to: a script to the OLT and to ONUs, the
\* ledger poll loop to the ONU of a reboot record.
Targets(t) == IF t = "ledger" THEN {"onu"} ELSE ChanDevices

NoAnswer == [kind |-> "none", id |-> 0]
NoWaiter == [state |-> "idle", dev |-> "none", req |-> 0, got |-> NoAnswer]

\* Whether the channel of a device may put its next queued request on the
\* wire: only when no request of the device awaits a response.
CanTransmit_always(out) == TRUE
CanTransmit(out) == out = {}

\* device.send: the request joins the queue of its device, and the task
\* goes on to waitResponse.
Submit(t, d) ==
    /\ chWait[t].state \in {"idle", "done"}
    /\ d \in Targets(t)
    /\ nsub < MaxSubmits
    /\ nsub' = nsub + 1
    /\ chQueue' = [chQueue EXCEPT ![d] = Append(@, [task |-> t, id |-> nsub + 1])]
    /\ chSubmitted' = [chSubmitted EXCEPT ![d] = Append(@, nsub + 1)]
    /\ chWait' = [chWait EXCEPT ![t] = [state |-> "waiting", dev |-> d,
                                        req |-> nsub + 1, got |-> NoAnswer]]
    /\ UNCHANGED <<chOut, chSent>>
    /\ UNCHANGED notChanVars

\* The channel hands the oldest queued request to the transport.
Transmit(d) ==
    /\ chQueue[d] # <<>>
    /\ CanTransmit(chOut[d])
    /\ chOut' = [chOut EXCEPT ![d] = @ \cup {Head(chQueue[d])}]
    /\ chQueue' = [chQueue EXCEPT ![d] = Tail(@)]
    /\ chSent' = [chSent EXCEPT ![d] = Append(@, Head(chQueue[d]).id)]
    /\ UNCHANGED <<chWait, chSubmitted, nsub>>
    /\ UNCHANGED notChanVars

\* The dispatcher routes the answer to a request of the device to the
\* channel (device.recieve); the waiter that reads the mailbox returns it.
Receive(d) ==
    /\ \E r \in chOut[d], w \in chOut[d] :
        /\ chWait' = [chWait EXCEPT ![w.task].state = "done",
                                    ![w.task].got =
                                        [kind |-> "response", id |-> r.id]]
        /\ chOut' = [chOut EXCEPT ![d] = @ \ {w}]
    /\ UNCHANGED <<chQueue, chSubmitted, chSent, nsub>>
    /\ UNCHANGED notChanVars

\* ResponseTimer runs out: waitResponse returns a Timeout error.
ResponseTimeout(d) ==
    /\ \E w \in chOut[d] :
        /\ chWait' = [chWait EXCEPT ![w.task].state = "done",
                                    ![w.task].got =
                                        [kind |-> "Timeout", id |-> 0]]
        /\ chOut' = [chOut EXCEPT ![d] = @ \ {w}]
    /\ UNCHANGED <<chQueue, chSubmitted, chSent, nsub>>
    /\ UNCHANGED notChanVars

InitChan ==
    /\ chQueue = [d \in ChanDevices |-> <<>>]
    /\ chOut = [d \in ChanDevices |-> {}]
    /\ chSubmitted = [d \in ChanDevices |-> <<>>]
    /\ chSent = [d \in ChanDevices |-> <<>>]
    /\ chWait = [t \in ChanTasks |-> NoWaiter]
    /\ nsub = 0

NextChan ==
    \/ \E t \in ChanTasks, d \in ChanDevices : Submit(t, d)
    \/ \E d \in ChanDevices : Transmit(d)
    \/ \E d \in ChanDevices : Receive(d)
    \/ \E d \in ChanDevices : ResponseTimeout(d)

----------------------------------------------------------------------------
(***************************************************************************)
(* The raw-Ethernet handle of the process: NewDeviceHandler calls          *)
(* NewL2oamHandle, which opens the handle and starts the I/O loop when the *)
(* package variable l2oamHandle is nil.                                    *)
(***************************************************************************)
HandlerTasks == {"a1", "a2"}

NilHandle == [isNil |-> TRUE, Handle |-> 0]

\* pcap.OpenLive: a handle the process has not opened before, or nil.
OpenLiveResult(ok) == IF ok THEN Cardinality(opened) + 1 ELSE 0

\* NewDeviceHandler up to the call of NewL2oamHandle.
NewDeviceHandler(t) ==
    /\ hpc[t] = "idle"
    /\ nhandlers < MaxHandlers
    /\ nhandlers' = nhandlers + 1
    /\ hpc' = [hpc EXCEPT ![t] = "GetL2oamHandle"]
    /\ UNCHANGED <<l2oamHandle, hlocal, opened, loops>>
    /\ UNCHANGED notHdlVars

\* if GetL2oamHandle() == nil
GetL2oamHandle(t) ==
    /\ hpc[t] = "GetL2oamHandle"
    /\ hpc' = [hpc EXCEPT ![t] = IF l2oamHandle.isNil THEN "OpenLive"
                                                     ELSE "idle"]
    /\ UNCHANGED <<l2oamHandle, hlocal, opened, loops, nhandlers>>
    /\ UNCHANGED notHdlVars

\* handle, _ := pcap.OpenLive(...)
OpenLive(t) ==
    /\ hpc[t] = "OpenLive"
    /\ \E ok \in BOOLEAN :
        /\ hlocal' = [hlocal EXCEPT ![t] = OpenLiveResult(ok)]
        /\ opened' = IF ok THEN opened \cup {OpenLiveResult(ok)} ELSE opened
    /\ hpc' = [hpc EXCEPT ![t] = "store"]
    /\ UNCHANGED <<l2oamHandle, loops, nhandlers>>
    /\ UNCHANGED notHdlVars

\* l2oamHandle = &L2oamHandle{...}; go l2oamHandle.startThread(...) unless
\* handle is nil.
StoreHandle(t) ==
    /\ hpc[t] = "store"
    /\ l2oamHandle' = [isNil |-> FALSE, Handle |-> hlocal[t]]
    /\ loops' = IF hlocal[t] # 0 THEN loops \cup {hlocal[t]} ELSE loops
    /\ hpc' = [hpc EXCEPT ![t] = "idle"]
    /\ UNCHANGED <<hlocal, opened, nhandlers>>
    /\ UNCHANGED notHdlVars

InitHdl ==
    /\ l2oamHandle = NilHandle
    /\ hpc = [t \in HandlerTasks |-> "idle"]
    /\ hlocal = [t \in HandlerTasks |-> 0]
    /\ opened = {}
    /\ loops = {}
    /\ nhandlers = 0

NextHdl ==
    \/ \E t \in HandlerTasks : NewDeviceHandler(t)
    \/ \E t \in HandlerTasks : GetL2oamHandle(t)
    \/ \E t \in HandlerTasks : OpenLive(t)
    \/ \E t \in HandlerTasks : StoreHandle(t)

----------------------------------------------------------------------------
(***************************************************************************)
(* The I/O loop of the handle and the transport's send: send puts the      *)
(* frame on the unbuffered channel ReqCh, the select of startThread takes  *)
(* either a frame from ReqCh and writes it, or a packet from the packet    *)
(* source and dispatches it.                                               *)
(***************************************************************************)
Senders == {"sequencer", "keepalive"}

\* Where the loop is after dispatch (dispatchVlan) has returned: at the
\* select again.
AfterDispatch_stuck == "dispatch"
AfterDispatch == "select"

\* h.ReqCh <- message: the sender waits until the loop takes the frame.
Send(s) ==
    /\ spc[s] \in {"idle", "returned"}
    /\ nsend < MaxSends
    /\ nsend' = nsend + 1
    /\ spc' = [spc EXCEPT ![s] = "blocked"]
    /\ UNCHANGED <<lpc, pkts, narr, written>>
    /\ UNCHANGED notIoVars

\* A packet that passes the filter reaches the packet source.
PacketArrives ==
    /\ narr < MaxIoFrames
    /\ narr' = narr + 1
    /\ pkts' = pkts + 1
    /\ UNCHANGED <<lpc, spc, nsend, written>>
    /\ UNCHANGED notIoVars

\* case message := <-h.ReqCh: WritePacketData, and the sender goes on.
LoopWrite(s) ==
    /\ lpc = "select"
    /\ spc[s] = "blocked"
    /\ written' = Append(written, s)
    /\ spc' = [spc EXCEPT ![s] = "returned"]
    /\ UNCHANGED <<lpc, pkts, narr, nsend>>
    /\ UNCHANGED notIoVars

\* case packet := <-packetSource.Packets(): the loop enters dispatch.
LoopReceive ==
    /\ lpc = "select"
    /\ pkts > 0
    /\ pkts' = pkts - 1
    /\ lpc' = "dispatch"
    /\ UNCHANGED <<spc, narr, nsend, written>>
    /\ UNCHANGED notIoVars

\* The calls dispatch made for the frame have returned.
DispatchReturn ==
    /\ lpc = "dispatch"
    /\ lpc' = AfterDispatch
    /\ UNCHANGED <<pkts, spc, narr, nsend, written>>
    /\ UNCHANGED notIoVars

\* dispatch of an EAPOL or C-tag frame of an unregistered source: h.packetIn
\* calls l2oamDeviceHandler.handlePacketIndication on the loop's task, which
\* calls dh.coreProxy.SendPacketIn and hands its error back to packetIn.
PacketInCall ==
    /\ lpc = "dispatch"
    /\ lpc' = "SendPacketIn"
    /\ UNCHANGED <<pkts, spc, narr, nsend, written>>
    /\ UNCHANGED notIoVars

\* SendPacketIn comes back with the outcome of the transfer to the core;
\* handlePacketIndication, packetIn and dispatch return.
SendPacketInReturn ==
    /\ lpc = "SendPacketIn"
    /\ lpc' = AfterDispatch
    /\ UNCHANGED <<pkts, spc, narr, nsend, written>>
    /\ UNCHANGED notIoVars

InitIo ==
    /\ lpc = "select"
    /\ pkts = 0
    /\ spc = [s \in Senders |-> "idle"]
    /\ narr = 0
    /\ nsend = 0
    /\ written = <<>>

NextIo ==
    \/ \E s \in Senders : Send(s)
    \/ PacketArrives
    \/ \E s \in Senders : LoopWrite(s)
    \/ LoopReceive
    \/ DispatchReturn
    \/ PacketInCall
    \/ SendPacketInReturn

\* The select picks among its ready cases at random, so a sender that stays
\* ready is taken at one of the loop's returns to the select; dispatch
\* returns, and so does the call of SendPacketIn.
FairIo ==
    /\ \A s \in Senders : SF_vars(LoopWrite(s))
    /\ WF_vars(DispatchReturn)
    /\ WF_vars(SendPacketInReturn)

----------------------------------------------------------------------------
(***************************************************************************)
(* The ONU status ledger and its poll loop: WatchStatus reads the document *)
(* at every tick, resets the ONU of every record marked for reboot and     *)
(* writes the list back.                                                   *)
(***************************************************************************)
LedgerMacs == {"macA", "macB"}

\* The records of the document, in the order of the file.
LedgerOrder == <<"macA", "macB">>

NoPoll == [read |-> <<>>, found |-> {}, sent |-> <<>>, written |-> <<>>]

\* onuList[i].RebootState after the loop has met the record marked for
\* reboot: cleared at once, whether or not a device is found for its MAC.
RebootStateAfterScan_keep(found) == IF found THEN "" ELSE "reboot"
RebootStateAfterScan(found) == ""

\* A REST call marks the record of an ONU for reboot.
MarkReboot(m) ==
    /\ nmarks < MaxMarks
    /\ nmarks' = nmarks + 1
    /\ ledger' = [ledger EXCEPT ![m] = "reboot"]
    /\ UNCHANGED <<wList, wpc, wi, poll, polls, ldev, nregs>>
    /\ UNCHANGED notLedgerVars

\* The registry gets or loses the device of a MAC.
RegistryChange(m) ==
    /\ nregs < MaxRegs
    /\ nregs' = nregs + 1
    /\ ldev' = IF m \in ldev THEN ldev \ {m} ELSE ldev \cup {m}
    /\ UNCHANGED <<ledger, wList, wpc, wi, poll, polls, nmarks>>
    /\ UNCHANGED notLedgerVars

\* for range ticker.C: onuList, err := l2oam.ReadOnuStatusList()
ReadOnuStatusList ==
    /\ wpc = "tick"
    /\ Len(polls) < MaxPolls
    /\ wList' = ledger
    /\ wi' = 1
    /\ wpc' = "scan"
    /\ poll' = [NoPoll EXCEPT !.read = ledger]
    /\ UNCHANGED <<ledger, polls, ldev, nmarks, nregs>>
    /\ UNCHANGED notLedgerVars

\* One record of the range loop: for a record marked for reboot the flag is
\* set to off, FindL2oamDevice looks the MAC up and, for a device found,
\* onuDevice.send(GenerateSetResetOnu) is followed by waitResponse.
ScanRecord ==
    /\ wpc = "scan"
    /\ wi <= Len(LedgerOrder)
    /\ LET m == LedgerOrder[wi]
           found == m \in ldev
       IN IF wList[m] = "reboot"
            THEN /\ wList' = [wList EXCEPT ![m] = RebootStateAfterScan(found)]
                 /\ IF found
                      THEN /\ poll' = [poll EXCEPT !.found = @ \cup {m},
                                                   !.sent = Append(@, m)]
                           /\ wpc' = "waitResponse"
                           /\ UNCHANGED wi
                      ELSE /\ wi' = wi + 1
                           /\ UNCHANGED <<poll, wpc>>
            ELSE /\ wi' = wi + 1
                 /\ UNCHANGED <<wList, poll, wpc>>
    /\ UNCHANGED <<ledger, polls, ldev, nmarks, nregs>>
    /\ UNCHANGED notLedgerVars

\* onuDevice.waitResponse(ResponseTimer) returns, with a response or with an
\* error that is logged; the loop goes on with the next record.
ResetOnuAnswered ==
    /\ wpc = "waitResponse"
    /\ wpc' = "scan"
    /\ wi' = wi + 1
    /\ UNCHANGED <<ledger, wList, poll, polls, ldev, nmarks, nregs>>
    /\ UNCHANGED notLedgerVars

\* l2oam.WriteOnuStatusList(onuList) after the last record.
WriteOnuStatusList ==
    /\ wpc = "scan"
    /\ wi > Len(LedgerOrder)
    /\ ledger' = wList
    /\ polls' = Append(polls, [poll EXCEPT !.written = wList])
    /\ poll' = NoPoll
    /\ wpc' = "tick"
    /\ UNCHANGED <<wList, wi, ldev, nmarks, nregs>>
    /\ UNCHANGED notLedgerVars

InitLedger ==
    /\ ledger = [m \in LedgerMacs |-> ""]
    /\ wList = [m \in LedgerMacs |-> ""]
    /\ wpc = "tick"
    /\ wi = 1
    /\ poll = NoPoll
    /\ polls = <<>>
    /\ ldev = {}
    /\ nmarks = 0
    /\ nregs = 0

NextLedger ==
    \/ \E m \in LedgerMacs : MarkReboot(m)
    \/ \E m \in LedgerMacs : RegistryChange(m)
    \/ ReadOnuStatusList
    \/ ScanRecord
    \/ ResetOnuAnswered
    \/ WriteOnuStatusList

----------------------------------------------------------------------------
(***************************************************************************)
(* OAMPDU Information: the organization-specific TLV that Decode stores    *)
(* and the classification of the ONU package variant from it.              *)
(***************************************************************************)
\* Byte values the value of a TLV is drawn from.
OsiBytes == {0, 16, 96, 130, 144}

\* Lengths of the organization-specific TLV, type and length byte included;
\* 0 when the PDU has no such TLV.
OsiLengths == {0, 7, 9}

RECURSIVE Zeros(_)
Zeros(n) == IF n <= 0 THEN <<>> ELSE <<0>> \o Zeros(n - 1)

\* tlvValue := data[i+2 : i+int(tlvLength)]
TlvValue(len, b) == IF len = 0 THEN <<>> ELSE b \o Zeros(len - 2 - Len(b))

\* IsOnuPkgA
IsOnuPkgA_firstByte(d) ==
    IF d.OSILength = 0 THEN TRUE
    ELSE IF d.OSILength = 7 THEN d.OSIValue[1] = 0
    ELSE FALSE
IsOnuPkgA(d) ==
    IF d.OSILength = 0 THEN TRUE
    ELSE IF d.OSILength = 7
      THEN d.OSIValue[1] = 0 /\ d.OSIValue[2] = 16 /\ d.OSIValue[3] = 0
    ELSE FALSE

\* IsOnuPkgB
IsOnuPkgB(d) ==
    IF d.OSILength = 0 THEN TRUE
    ELSE IF d.OSILength = 7
      THEN d.OSIValue[1] = 144 /\ d.OSIValue[2] = 130 /\ d.OSIValue[3] = 96
    ELSE FALSE

\* Decode of an OAMPDU Information with the given organization-specific TLV,
\* and the two classifications of the result.
DecodeInformation ==
    /\ \E len \in OsiLengths, b0 \in OsiBytes, b1 \in OsiBytes,
          b2 \in OsiBytes :
        LET d == [OSILength |-> len, OSIValue |-> TlvValue(len, <<b0, b1, b2>>)]
        IN /\ info' = d
           /\ pkgA' = IsOnuPkgA(d)
           /\ pkgB' = IsOnuPkgB(d)
    /\ UNCHANGED notInfoVars

InitInfo ==
    /\ info = [OSILength |-> 0, OSIValue |-> <<>>]
    /\ pkgA = TRUE
    /\ pkgB = TRUE

NextInfo == DecodeInformation

----------------------------------------------------------------------------
(***************************************************************************)
(* Discovery-Solicit: the value of GenerateDiscoverySOLICIT, SerializeTo   *)
(* and Decode.  A byte is a number in 0..255, a uint16 is written and read *)
(* big-endian.                                                             *)
(***************************************************************************)
\* Byte values the value fields of a built Discovery-Solicit are drawn from.
SolicitBytes == {0, 1, 128}

\* A byte of the buffer gopacket.NewSerializeBuffer() hands to SerializeTo:
\* CreateMessage serializes every PDU into a new buffer.
FreshBufferByte == 0

\* []byte("tibitcom.com")
TibitcomCom == <<116, 105, 98, 105, 116, 99, 111, 109, 46, 99, 111, 109>>

\* The value GenerateDiscoverySOLICIT returns.
GeneratedSolicit ==
    [Opcode |-> 253, DiscoveryType |-> 1, VendorType |-> 254, Length |-> 37,
     VendorIDType |-> 253, VendorIDLength |-> 3, VendorID |-> <<42, 234, 21>>,
     CPType |-> 5, CPLength |-> 1, CPValue |-> <<128>>,
     NWType |-> 6, NWLength |-> 16, NWValue |-> TibitcomCom,
     DVType |-> 7, DVLength |-> 1, DVValue |-> <<1>>,
     SCPType |-> 8, SCPLength |-> 1, SCPValue |-> <<3>>,
     PadType |-> 255, PadLength |-> 1, PadValue |-> <<0>>]

\* Byte sequences of at most n bytes.
RECURSIVE SolicitSeqs(_)
SolicitSeqs(n) ==
    IF n = 0 THEN {<<>>}
    ELSE LET shorter == SolicitSeqs(n - 1)
         IN shorter \cup {Append(v, b) : v \in shorter, b \in SolicitBytes}

\* A Discovery-Solicit value whose length fields state the lengths of its
\* value fields, and whose Length is the length of the fields before the
\* padding.
BuiltSolicit(cp, nw, dv, scp) ==
    [GeneratedSolicit EXCEPT !.CPValue = <<cp>>,
                             !.NWLength = Len(nw), !.NWValue = nw,
                             !.DVValue = <<dv>>, !.SCPValue = <<scp>>,
                             !.Length = 21 + Len(nw)]

\* binary.BigEndian.PutUint16 and binary.BigEndian.Uint16
PutUint16(v) == <<(v \div 256) % 256, v % 256>>
Uint16(data, i) == data[i] * 256 + data[i + 1]

RECURSIVE Fill(_, _)
Fill(n, b) == IF n <= 0 THEN <<>> ELSE <<b>> \o Fill(n - 1, b)

\* copy(data[i:i+length], value): the bytes of value that fit; the bytes of
\* the buffer it does not reach stay as they were.
CopyValue_short(length, value, fill) ==
    IF Len(value) >= length THEN SubSeq(value, 1, length) ELSE value
CopyValue(length, value, fill) ==
    IF Len(value) >= length THEN SubSeq(value, 1, length)
    ELSE value \o Fill(length - Len(value), fill)

\* data[i] = type; PutUint16(length); copy(value): one typed field.
PutField(type, length, value, fill) ==
    <<type>> \o PutUint16(length) \o CopyValue(length, value, fill)

\* SerializeTo, into a buffer whose bytes are fill at the start.
SolicitBytesOf(d, fill) ==
    <<d.Opcode, d.DiscoveryType, d.VendorType>> \o PutUint16(d.Length)
        \o PutField(d.VendorIDType, d.VendorIDLength, d.VendorID, fill)
        \o PutField(d.CPType, d.CPLength, d.CPValue, fill)
        \o PutField(d.NWType, d.NWLength, d.NWValue, fill)
        \o PutField(d.DVType, d.DVLength, d.DVValue, fill)
        \o PutField(d.SCPType, d.SCPLength, d.SCPValue, fill)
        \o PutField(d.PadType, d.PadLength, d.PadValue, fill)

\* One typed field of Decode at index i of data: type, length, value and
\* the index of the field that follows.
GetField(data, i) ==
    LET length == Uint16(data, i + 1)
    IN [type |-> data[i], length |-> length,
        value |-> SubSeq(data, i + 3, i + 2 + length),
        next |-> i + 3 + length]

\* Decode
SolicitOfBytes(data) ==
    LET vid == GetField(data, 6)
        cp == GetField(data, vid.next)
        nw == GetField(data, cp.next)
        dv == GetField(data, nw.next)
        scp == GetField(data, dv.next)
        pad == GetField(data, scp.next)
    IN [Opcode |-> data[1], DiscoveryType |-> data[2], VendorType |-> data[3],
        Length |-> Uint16(data, 4),
        VendorIDType |-> vid.type, VendorIDLength |-> vid.length,
        VendorID |-> vid.value,
        CPType |-> cp.type, CPLength |-> cp.length, CPValue |-> cp.value,
        NWType |-> nw.type, NWLength |-> nw.length, NWValue |-> nw.value,
        DVType |-> dv.type, DVLength |-> dv.length, DVValue |-> dv.value,
        SCPType |-> scp.type, SCPLength |-> scp.length,
        SCPValue |-> scp.value,
        PadType |-> pad.type, PadLength |-> pad.length,
        PadValue |-> pad.value]

\* GenerateDiscoverySOLICIT()
GenerateDiscoverySOLICIT ==
    /\ sol # GeneratedSolicit \/ wire # <<>>
    /\ sol' = GeneratedSolicit
    /\ wire' = <<>>
    /\ dec' = <<>>
    /\ UNCHANGED notSolVars

\* &DiscoverySolicit{...} with fields of the caller's choice.
NewDiscoverySolicit ==
    /\ \E cp \in SolicitBytes, nw \in SolicitSeqs(MaxNwLen),
          dv \in SolicitBytes, scp \in SolicitBytes :
        sol' = BuiltSolicit(cp, nw, dv, scp)
    /\ wire' = <<>>
    /\ dec' = <<>>
    /\ UNCHANGED notSolVars

\* gopacket.SerializeLayers with the value: SerializeTo
DiscoverySolicitSerializeTo ==
    /\ wire = <<>>
    /\ wire' = SolicitBytesOf(sol, FreshBufferByte)
    /\ UNCHANGED <<sol, dec>>
    /\ UNCHANGED notSolVars

\* Decode of the serialized bytes into a new value
DiscoverySolicitDecode ==
    /\ wire # <<>>
    /\ dec = <<>>
    /\ dec' = <<SolicitOfBytes(wire)>>
    /\ UNCHANGED <<sol, wire>>
    /\ UNCHANGED notSolVars

InitSol ==
    /\ sol = GeneratedSolicit
    /\ wire = <<>>
    /\ dec = <<>>

NextSol ==
    \/ GenerateDiscoverySOLICIT
    \/ NewDiscoverySolicit
    \/ DiscoverySolicitSerializeTo
    \/ DiscoverySolicitDecode

----------------------------------------------------------------------------
(***************************************************************************)
(* OLT-management requests: the generators GnerateGetVendorName and        *)
(* GenerateBestEffortRate, which take their correlation tag from           *)
(* getOltInstance, and TOAMGetRequest.SerializeTo.                         *)
(***************************************************************************)
\* The rates the rate arguments are cut from: Pir and Cir of the default
\* command and the rate of the generator's test, each followed by two bytes.
BaseRates == {<<0, 152, 150, 128, 1, 1>>, <<0, 0, 3, 232, 255, 255>>,
              <<0, 76, 75, 64, 0, 0>>}

\* trafficProfile arguments, four bytes each.
TrafficProfiles == {<<0, 0, 0, 1>>, <<0, 0, 0, 2>>, <<0, 1, 0, 0>>}

\* ecvalue arguments: the rates of at most n bytes.
RateValues(n) == {SubSeq(r, 1, k) : r \in BaseRates, k \in 0..n}

\* binary.BigEndian.Uint32 of four bytes and binary.BigEndian.PutUint32
Uint32(b) == U32(b[1] * 256 + b[2], b[3] * 256 + b[4])
PutUint32(v) == PutUint16(v.hi) \o PutUint16(v.lo)

\* The TOAMGetRequest of GnerateGetVendorName with correlation tag ct.
GetVendorNameRequest(ct) ==
    [Opcode |-> 3, Flags |-> 80, OAMPDUCode |-> 254, OUId |-> <<42, 234, 21>>,
     TOMIOpcode |-> 1,
     CTBranch |-> 12, CTType |-> 3194, CTLength |-> 4, CTInstance |-> ct,
     OCBranch |-> 12, OCType |-> 3534, OCLength |-> 4,
     OCInstance |-> U32(0, 0),
     VdBranch |-> 222, VdLeaf |-> 9, EndBranch |-> 0]

\* The TOAMSetRequest of GenerateBestEffortRate(ecvalue, trafficProfile)
\* with correlation tag ct; the two lengths are uint8.
BestEffortRateRequest(ecvalue, trafficProfile, ct) ==
    [Opcode |-> 3, Flags |-> 80, OAMPDUCode |-> 254, OUId |-> <<42, 234, 21>>,
     TOMIOpcode |-> 3,
     CTBranch |-> 12, CTType |-> 3194, CTLength |-> 4, CTInstance |-> ct,
     OCBranch |-> 12, OCType |-> 1807, OCLength |-> 4,
     OCInstance |-> Uint32(trafficProfile),
     VcBranch |-> 127, VcLeaf |-> 8, VcLength |-> (1 + Len(ecvalue)) % 256,
     ECLength |-> Len(ecvalue) % 256, ECValue |-> ecvalue, EndBranch |-> 0]

\* TOAMGetRequest.Len
GetRequestLen == 29

\* TOAMGetRequest.SerializeTo: the fields in the order they are written,
\* into a new buffer of Len() bytes.
GetRequestFields_ctNine(d) ==
    <<d.Opcode>> \o PutUint16(d.Flags) \o <<d.OAMPDUCode>> \o d.OUId
        \o <<d.TOMIOpcode>>
        \o <<d.CTBranch>> \o PutUint16(d.CTType) \o <<d.CTLength>>
        \o PutUint32(d.CTInstance) \o <<FreshBufferByte>>
        \o <<d.OCBranch>> \o PutUint16(d.OCType) \o <<d.OCLength>>
        \o PutUint32(d.OCInstance)
        \o <<d.VdBranch>> \o PutUint16(d.VdLeaf) \o <<d.EndBranch>>
GetRequestFields(d) ==
    <<d.Opcode>> \o PutUint16(d.Flags) \o <<d.OAMPDUCode>> \o d.OUId
        \o <<d.TOMIOpcode>>
        \o <<d.CTBranch>> \o PutUint16(d.CTType) \o <<d.CTLength>>
        \o PutUint32(d.CTInstance)
        \o <<d.OCBranch>> \o PutUint16(d.OCType) \o <<d.OCLength>>
        \o PutUint32(d.OCInstance)
        \o <<d.VdBranch>> \o PutUint16(d.VdLeaf) \o <<d.EndBranch>>

GetRequestBytes(d) ==
    GetRequestFields(d)
        \o Fill(GetRequestLen - Len(GetRequestFields(d)), FreshBufferByte)

\* How many values a generator takes from getOltInstance.
TagsPerRequest_two == 1 + 1
TagsPerRequest == 1

\* getOltInstance called n times by one task: the counter after the calls
\* and the value of the last call.
GetOltInstance(n) == Add32(instance, n)

\* A generator runs with arguments e and p: it calls getOltInstance and
\* returns its request.
Generated(g, e, p, r) ==
    /\ Len(returned) + TagsPerRequest <= MaxCalls
    /\ instanceMutexFree
    /\ instance' = GetOltInstance(TagsPerRequest)
    /\ returned' = returned \o [k \in 1..TagsPerRequest |->
                                    Add32(instance, k)]
    /\ call' = [gen |-> g, ecvalue |-> e, trafficProfile |-> p,
                took |-> TagsPerRequest]
    /\ req' = <<r>>
    /\ frame' = <<>>
    /\ UNCHANGED <<instanceMutex, tpc, tgen, tlocal, pdus>>
    /\ UNCHANGED notTagPduVars

GnerateGetVendorName ==
    Generated("GnerateGetVendorName", <<>>, <<>>,
              GetVendorNameRequest(GetOltInstance(TagsPerRequest)))

GenerateBestEffortRate ==
    \E e \in RateValues(MaxRateLen), p \in TrafficProfiles :
        Generated("GenerateBestEffortRate", e, p,
                  BestEffortRateRequest(e, p, GetOltInstance(TagsPerRequest)))

\* CreateMessage with a Get request: TOAMGetRequest.SerializeTo
GetRequestSerializeTo ==
    /\ call.gen = "GnerateGetVendorName"
    /\ frame = <<>>
    /\ frame' = GetRequestBytes(req[1])
    /\ UNCHANGED <<call, req>>
    /\ UNCHANGED notPduVars

InitPdu ==
    /\ call = [gen |-> "none", ecvalue |-> <<>>, trafficProfile |-> <<>>,
               took |-> 0]
    /\ req = <<>>
    /\ frame = <<>>

NextPdu ==
    \/ GnerateGetVendorName
    \/ GenerateBestEffortRate
    \/ GetRequestSerializeTo

----------------------------------------------------------------------------
(***************************************************************************)
(* L2oamAddFlow, the "add-flow" command without an ONU device ID           *)
(* (flowVersion 2): traffic profiles are set up for every active ONU.      *)
(* L2oamRemoveFlow is the part of the tear-down that deletes them again.   *)
(***************************************************************************)
NoProfile == <<>>        \* getProfile() returns nil, nil

\* The ONUs of the list the loop of L2oamAddFlow does not pass over: the
\* ONU has a record, is active and has an object context.
Usable(o) == fonus[o].exists /\ fonus[o].active /\ fonus[o].oc

RECURSIVE FlowNextOnu(_)
FlowNextOnu(cs) ==
    IF cs = <<>> THEN <<>>
    ELSE IF Usable(Head(cs)) THEN cs
    ELSE FlowNextOnu(Tail(cs))

FlowIdle == [cmd |-> "idle", at |-> "", list |-> <<>>, isFirst |-> FALSE,
             down |-> 0, up |-> 0, created |-> 0, profBefore |-> FALSE]

\* isFirst of L2oamAddFlow when the loop starts: a local variable set to
\* true in every invocation; the profile stored in the record is not read.
IsFirstAtStart_fromRecord(p) == p = NoProfile
IsFirstAtStart(p) == TRUE

\* The invocation ends: what it found and did is kept for the claims.
FlowEnd(created) ==
    /\ s3' = FlowIdle
    /\ s3log' = Append(s3log, [profBefore |-> s3.profBefore,
                               created |-> created])

\* continue: the loop goes on with the next usable ONU, or ends.
FlowContinue(isFirst) ==
    LET rest == FlowNextOnu(Tail(s3.list))
    IN IF rest = <<>> THEN FlowEnd(s3.created)
       ELSE /\ s3' = [s3 EXCEPT !.at = "ref", !.list = rest,
                                !.isFirst = isFirst]
            /\ UNCHANGED s3log

\* NewL2oamOltDevice: the OLT record exists from L2oamGetDeviceInfo on.
FlowNewOlt ==
    /\ ~folt
    /\ folt' = TRUE
    /\ UNCHANGED <<fonus, prof, refTbl, hwProfiles, s3, s3log, ninv>>
    /\ UNCHANGED notFlowVars

\* An ONU record is created, gets its object context, is set active.
FlowNewOnu(o) ==
    /\ folt /\ ~fonus[o].exists
    /\ fonus' = [fonus EXCEPT ![o].exists = TRUE]
    /\ UNCHANGED <<folt, prof, refTbl, hwProfiles, s3, s3log, ninv>>
    /\ UNCHANGED notFlowVars

FlowOnuRegistered(o) ==
    /\ fonus[o].exists /\ ~fonus[o].oc
    /\ fonus' = [fonus EXCEPT ![o].oc = TRUE]
    /\ UNCHANGED <<folt, prof, refTbl, hwProfiles, s3, s3log, ninv>>
    /\ UNCHANGED notFlowVars

FlowOnuActive(o) ==
    /\ fonus[o].exists /\ ~fonus[o].active
    /\ fonus' = [fonus EXCEPT ![o].active = TRUE]
    /\ UNCHANGED <<folt, prof, refTbl, hwProfiles, s3, s3log, ninv>>
    /\ UNCHANGED notFlowVars

\* L2oamAddFlow up to its first request: return when the OLT is not found;
\* isFirst := true; the loop passes over the ONUs that are not usable.
L2oamAddFlow ==
    /\ s3.cmd = "idle"
    /\ ninv < MaxAddFlows
    /\ ninv' = ninv + 1
    /\ IF ~folt
         THEN UNCHANGED <<s3, s3log>>
         ELSE LET list == FlowNextOnu(ChildDevices)
              IN IF list = <<>>
                   THEN /\ s3' = FlowIdle
                        /\ s3log' = Append(s3log,
                              [profBefore |-> prof # NoProfile,
                               created |-> 0])
                   ELSE /\ s3' = [FlowIdle EXCEPT !.cmd = "AddFlow",
                                     !.at = "ref", !.list = list,
                                     !.isFirst = IsFirstAtStart(prof),
                                     !.profBefore = prof # NoProfile]
                        /\ UNCHANGED s3log
    /\ UNCHANGED <<folt, fonus, prof, refTbl, hwProfiles>>
    /\ UNCHANGED notFlowVars

\* sendGetTrafficControlReferenceTable: nil without an answer, continue;
\* else onu.setReferenceTable.
AddFlowRefStep ==
    /\ s3.cmd = "AddFlow" /\ s3.at = "ref"
    /\ \E out \in Outcomes("GetTrafficControlReferenceTable") :
        IF out = "timeout"
          THEN /\ FlowContinue(s3.isFirst)
               /\ UNCHANGED refTbl
          ELSE /\ refTbl' = [refTbl EXCEPT ![Head(s3.list)] = TRUE]
               /\ s3' = [s3 EXCEPT !.at = IF s3.isFirst THEN "create_down"
                                                         ELSE "tc_down"]
               /\ UNCHANGED s3log
    /\ UNCHANGED <<folt, fonus, prof, hwProfiles, ninv>>
    /\ UNCHANGED notFlowVars

\* sendSetGenericActionCreate(ActionTypeTrafficProfile) for the down-stream
\* and for the up-stream profile: nil without an answer, break; after the
\* second one olt.setProfile(downProfile, upProfile).
AddFlowCreateProfileStep ==
    /\ s3.cmd = "AddFlow" /\ s3.at \in {"create_down", "create_up"}
    /\ \E out \in Outcomes("GenericActionCreateTrafficProfile") :
        IF out = "timeout"
          THEN /\ FlowEnd(s3.created)
               /\ UNCHANGED <<prof, hwProfiles>>
          ELSE LET id == FreshId(hwProfiles)
               IN /\ hwProfiles' = hwProfiles \cup {id}
                  /\ IF s3.at = "create_down"
                       THEN /\ s3' = [s3 EXCEPT !.at = "create_up",
                                        !.down = id,
                                        !.created = s3.created + 1]
                            /\ UNCHANGED prof
                       ELSE /\ s3' = [s3 EXCEPT !.at = "tc_down",
                                        !.up = id,
                                        !.created = s3.created + 1]
                            /\ prof' = <<s3.down, id>>
                  /\ UNCHANGED s3log
    /\ UNCHANGED <<folt, fonus, refTbl, ninv>>
    /\ UNCHANGED notFlowVars

\* The Set requests of the loop body, whose errors are only logged:
\* sendSetTrafficControl twice and, when isFirst, sendSetPriority,
\* sendSetGuranteedRate twice, sendSetBestEffortRate twice, isFirst = false.
SetSteps == <<"tc_down", "tc_up", "prio", "gr_down", "gr_up", "be_down",
              "be_up">>
LastTrafficControl == 2

AddFlowSetStep ==
    /\ s3.cmd = "AddFlow"
    /\ \E k \in 1..Len(SetSteps) :
        /\ s3.at = SetSteps[k]
        /\ IF k = Len(SetSteps) \/ (k = LastTrafficControl /\ ~s3.isFirst)
             THEN FlowContinue(FALSE)
             ELSE /\ s3' = [s3 EXCEPT !.at = SetSteps[k + 1]]
                  /\ UNCHANGED s3log
    /\ UNCHANGED <<folt, fonus, prof, refTbl, hwProfiles, ninv>>
    /\ UNCHANGED notFlowVars

\* L2oamRemoveFlow after an add-flow of this kind (flowVersion is 2): return
\* when the record holds no profile, else sendSetActionDelete for the
\* down-stream profile.
L2oamRemoveFlow ==
    /\ s3.cmd = "idle"
    /\ folt /\ ninv > 0
    /\ prof # NoProfile
    /\ \E out \in {"ok", "reject", "timeout"} :
        /\ hwProfiles' = IF out = "ok" THEN hwProfiles \ {prof[1]}
                                       ELSE hwProfiles
        /\ s3' = [FlowIdle EXCEPT !.cmd = "RemoveFlow", !.at = "del_up"]
    /\ UNCHANGED <<folt, fonus, prof, refTbl, s3log, ninv>>
    /\ UNCHANGED notFlowVars

\* sendSetActionDelete for the up-stream profile, olt.setProfile(nil, nil)
RemoveProfileStep ==
    /\ s3.cmd = "RemoveFlow" /\ s3.at = "del_up"
    /\ \E out \in {"ok", "reject", "timeout"} :
        /\ hwProfiles' = IF out = "ok" THEN hwProfiles \ {prof[2]}
                                       ELSE hwProfiles
        /\ prof' = NoProfile
        /\ s3' = FlowIdle
    /\ UNCHANGED <<folt, fonus, refTbl, s3log, ninv>>
    /\ UNCHANGED notFlowVars

InitFlow ==
    /\ folt = FALSE
    /\ fonus = [o \in Onus |-> [exists |-> FALSE, active |-> FALSE,
                               oc |-> FALSE]]
    /\ prof = NoProfile
    /\ refTbl = [o \in Onus |-> FALSE]
    /\ hwProfiles = {}
    /\ s3 = FlowIdle
    /\ s3log = <<>>
    /\ ninv = 0

NextFlow ==
    \/ FlowNewOlt
    \/ \E o \in Onus : FlowNewOnu(o)
    \/ \E o \in Onus : FlowOnuRegistered(o)
    \/ \E o \in Onus : FlowOnuActive(o)
    \/ L2oamAddFlow
    \/ AddFlowRefStep
    \/ AddFlowCreateProfileStep
    \/ AddFlowSetStep
    \/ L2oamRemoveFlow
    \/ RemoveProfileStep

----------------------------------------------------------------------------
(***************************************************************************)
(* Inbound frames as bytes: what dispatchVlan, dispatch and the Decode of  *)
(* an OAMPDU Information do with a frame whose bytes are not well formed.  *)
(* An index or slice bound out of range is a run-time panic of the task;   *)
(* nothing in startThread recovers from it, so it ends the process.        *)
(***************************************************************************)
\* Byte values the TLV part of a keep-alive payload is drawn from: a TLV
\* type (1 local, 2 remote, others unknown) or a TLV length.
TlvBytes == {0, 1, 2, 16}

RECURSIVE SeqsUpTo(_, _)
SeqsUpTo(S, n) ==
    IF n = 0 THEN {<<>>}
    ELSE LET shorter == SeqsUpTo(S, n - 1)
         IN shorter \cup {Append(q, b) : q \in shorter, b \in S}

\* Opcode 0x03, flags, code 0x00: the head of a keep-alive payload.
KeepAliveHead == <<3, 0, 0, 0>>
\* The head of a payload that is not a keep-alive (OAMPDU code 0xfe).
ResponseHead == <<3, 0, 80, 254>>

\* Payloads of a 0xa8c8 frame: fewer than four bytes, a keep-alive with any
\* TLV bytes behind its head, a response.
OamPayloads ==
    {SubSeq(KeepAliveHead, 1, n) : n \in 0..3}
    \cup {KeepAliveHead \o t : t \in SeqsUpTo(TlvBytes, MaxTlvBytes)}
    \cup {ResponseHead}

\* Frames behind the filter of the handle: an S-tagged frame whose tag
\* decodes and carries a 0xa8c8 payload, or one whose tag does not decode
\* (fewer than four bytes behind the Ethernet header).
RxFrames ==
    {[etherType |-> EthernetTypeQinQ, tagged |-> TRUE, payload |-> p] :
        p \in OamPayloads}
    \cup {[etherType |-> EthernetTypeQinQ, tagged |-> FALSE, payload |-> <<>>]}

\* cap(etherPacket.Payload) in dispatch: dispatchVlan builds the untagged
\* frame with append(etherBytes, vlanPacket.Payload...) in the array of the
\* captured frame, so the four bytes of the removed tag stay behind it.
SpareCap == 4
PayloadCap(p) == Len(p) + SpareCap

\* The TLV loop of OAMPDUInformation.Decode from offset i on: data[i+1]
\* needs i+1 < len(data), data[i+2 : i+tlvLength] needs
\* i+2 <= i+tlvLength <= cap(data); an unknown type ends Decode with an error.
RECURSIVE TlvLoop(_, _)
TlvLoop(data, i) ==
    IF Len(data) <= i THEN "nil"
    ELSE IF i + 1 >= Len(data) THEN "panic"
    ELSE LET tlvType == data[i + 1]
             tlvLength == data[i + 2]
         IN IF tlvLength = 0 THEN "nil"
            ELSE IF tlvLength < 2 \/ i + tlvLength > PayloadCap(data)
              THEN "panic"
            ELSE IF tlvType \notin {1, 2, 254} THEN "error"
            ELSE TlvLoop(data, i + tlvLength)

\* OAMPDUInformation.Decode(data): the four bytes of the head, then the TLVs.
InformationDecode(data) ==
    IF Len(data) < Len(KeepAliveHead) THEN "panic"
    ELSE TlvLoop(data, Len(KeepAliveHead))

\* dispatch of a 0xa8c8 frame: opcode := bytes[0] and oampduCode := bytes[3]
\* are read before the source is looked up.
RxDispatch(p, known) ==
    IF Len(p) < 4 THEN "panic"
    ELSE IF ~known THEN "skipped"
    ELSE IF p[1] = 3 /\ p[4] = 0
      THEN LET r == InformationDecode(p)
           IN IF r = "panic" THEN "panic"
              ELSE IF r = "error" THEN "skipped"
              ELSE "recieveKeepAlive"
    ELSE "recieve"

\* dispatchVlan: a tag that does not decode leaves type 0 in the frame, which
\* dispatch logs as unknown.
RxDispatchVlan(f, known) ==
    IF f.etherType # EthernetTypeQinQ THEN "skipped"
    ELSE IF ~f.tagged THEN "skipped"
    ELSE RxDispatch(f.payload, known)

\* A keep-alive payload whose TLVs are complete: every TLV has its two
\* bytes of type and length and the value its length announces, up to a
\* length of zero or the end of the payload.
RECURSIVE WellFormedTlvs(_, _)
WellFormedTlvs(data, i) ==
    IF Len(data) <= i THEN TRUE
    ELSE IF i + 1 >= Len(data) THEN FALSE
    ELSE LET tlvLength == data[i + 2]
         IN IF tlvLength = 0 THEN TRUE
            ELSE /\ tlvLength >= 2
                 /\ i + tlvLength <= Len(data)
                 /\ WellFormedTlvs(data, i + tlvLength)

Malformed(f) ==
    \/ ~f.tagged
    \/ Len(f.payload) < 4
    \/ /\ SubSeq(f.payload, 1, 4) = KeepAliveHead
       /\ ~WellFormedTlvs(f.payload, 4)

\* startThread takes a frame from the packet source and handles it.
RxHandle(f, known) ==
    /\ rx.pc = "select"
    /\ rx.n < MaxRxFrames
    /\ LET out == RxDispatchVlan(f, known)
       IN rx' = [pc |-> IF out = "panic" THEN "panic" ELSE "select",
                 n |-> rx.n + 1,
                 last |-> <<[frame |-> f, known |-> known, outcome |-> out]>>]
    /\ UNCHANGED notRxVars

InitRx == rx = [pc |-> "select", n |-> 0, last |-> <<>>]

NextRx == \E f \in RxFrames, known \in BOOLEAN : RxHandle(f, known)

----------------------------------------------------------------------------
(***************************************************************************)
(* Discovery creates the registry entry of the OLT: L2oamGetDeviceInfo     *)
(* looks the MAC up and, when there is no entry, creates one and starts    *)
(* its keep-alive.  Each call runs on the task of its device handler.      *)
(***************************************************************************)
AdoptTasks == {"h1", "h2"}

OltMacs == {"oltA", "oltB"}

\* A device handler calls L2oamGetDeviceInfo for the MAC of its device.
GetDeviceInfoCall(t, m) ==
    /\ ad.pc[t] \in {"idle", "done"}
    /\ ad.n < MaxAdopts
    /\ ad' = [ad EXCEPT !.pc[t] = "find", !.mac[t] = m, !.n = @ + 1]
    /\ UNCHANGED notAdVars

\* olt := FindL2oamDevice(dstMac); if olt == nil { ... }
\* The entry found decides, at this moment, whether the branch is taken.
FindOlt_locked(t) ==
    /\ ad.pc[t] = "find"
    /\ \A u \in AdoptTasks : ad.mac[u] = ad.mac[t] => ad.pc[u] \notin {"new", "start"}
    /\ ad' = [ad EXCEPT !.pc[t] = IF ad.mac[t] \in ad.reg THEN "done"
                                  ELSE "new"]
    /\ UNCHANGED notAdVars
FindOlt(t) ==
    /\ ad.pc[t] = "find"
    /\ ad' = [ad EXCEPT !.pc[t] = IF ad.mac[t] \in ad.reg THEN "done"
                                  ELSE "new"]
    /\ UNCHANGED notAdVars

\* olt, _ = NewL2oamOltDevice(dstMac, dh): the registry holds an entry for
\* the MAC afterwards, one entry however often it is created.
NewL2oamOltDevice(t) ==
    /\ ad.pc[t] = "new"
    /\ ad' = [ad EXCEPT !.pc[t] = "start", !.reg = @ \cup {ad.mac[t]}]
    /\ UNCHANGED notAdVars

\* olt.startKeepAlive(): a keep-alive task is started for the entry.
StartKeepAlive(t) ==
    /\ ad.pc[t] = "start"
    /\ ad' = [ad EXCEPT !.pc[t] = "done", !.ka[ad.mac[t]] = @ + 1]
    /\ UNCHANGED notAdVars

InitAd ==
    ad = [pc |-> [t \in AdoptTasks |-> "idle"],
          mac |-> [t \in AdoptTasks |-> "oltA"],
          reg |-> {},
          ka |-> [m \in OltMacs |-> 0],
          n |-> 0]

NextAd ==
    \/ \E t \in AdoptTasks, m \in OltMacs : GetDeviceInfoCall(t, m)
    \/ \E t \in AdoptTasks : FindOlt(t)
    \/ \E t \in AdoptTasks : NewL2oamOltDevice(t)
    \/ \E t \in AdoptTasks : StartKeepAlive(t)

----------------------------------------------------------------------------
(***************************************************************************)
(* The keep-alive PDUs: the three generators of an OAMPDU Information, its *)
(* SerializeTo and its Decode, and the variant the decoded PDU is          *)
(* classified as.                                                          *)
(***************************************************************************)
OampduTlvTypeLocalInfo == 1
OampduTlvTypeRemoteInfo == 2
OampduTlvTypeOrganizationSpecificInfo == 254

\* LIValue of the three generators
LocalInfoValue == <<1, 0, 0, 0, 27, 4, 176, 42, 234, 21, 0, 0, 0, 35>>

\* Values handed in as riValue: the Local-Information value of the peer,
\* 14 bytes with any first two bytes, and one that is shorter.
RiBytes == {0, 1, 80, 255}
RiValues ==
    {<<a, b>> \o SubSeq(LocalInfoValue, 3, Len(LocalInfoValue)) :
        a \in RiBytes, b \in RiBytes}
    \cup {<<1, 0>>}

\* osiLength and osiValue of GeneateKeepAlive1 and GeneateKeepAlive2
OsiOf(isOnuPkgA) ==
    IF isOnuPkgA THEN [length |-> 7, value |-> <<0, 16, 0, 0, 35>>]
    ELSE [length |-> 8, value |-> <<144, 130, 96, 2, 1, 1>>]

NoTlv == [type |-> 0, length |-> 0, value |-> <<>>]
LocalInfoTlv ==
    [type |-> OampduTlvTypeLocalInfo, length |-> 16, value |-> LocalInfoValue]
RemoteInfoTlv(riValue) ==
    [type |-> OampduTlvTypeRemoteInfo, length |-> 16, value |-> riValue]
OsiTlv(isOnuPkgA) ==
    [type |-> OampduTlvTypeOrganizationSpecificInfo,
     length |-> OsiOf(isOnuPkgA).length, value |-> OsiOf(isOnuPkgA).value]

\* The values the generators return.
KeepAlive1(isOnuPkgA) ==
    [Opcode |-> 3, Flags |-> 8, Code |-> 0,
     LI |-> LocalInfoTlv, RI |-> NoTlv, OSI |-> OsiTlv(isOnuPkgA)]
KeepAlive2(riValue, isOnuPkgA) ==
    [Opcode |-> 3, Flags |-> 48, Code |-> 0,
     LI |-> LocalInfoTlv, RI |-> RemoteInfoTlv(riValue),
     OSI |-> OsiTlv(isOnuPkgA)]
KeepAlive3_withOsi(riValue) ==
    [Opcode |-> 3, Flags |-> 80, Code |-> 0,
     LI |-> LocalInfoTlv, RI |-> RemoteInfoTlv(riValue), OSI |-> OsiTlv(TRUE)]
KeepAlive3(riValue) ==
    [Opcode |-> 3, Flags |-> 80, Code |-> 0,
     LI |-> LocalInfoTlv, RI |-> RemoteInfoTlv(riValue), OSI |-> NoTlv]

\* i = i + int(d.LILength): the bytes one TLV takes in the PDU, type and
\* length byte included.
TlvSize_valueOnly(length) == length + 1 + 1
TlvSize(length) == length

\* if d.LILength != 0 { data[i] = type; data[i+1] = length;
\* copy(data[i+2:i+length], value) }
PutTlv(t, fill) ==
    IF t.length = 0 THEN <<>>
    ELSE <<t.type, t.length>> \o CopyValue(TlvSize(t.length) - 2, t.value, fill)

\* OAMPDUInformation.SerializeTo into a new buffer of Len() bytes.
InformationBytes(d, fill) ==
    <<d.Opcode>> \o PutUint16(d.Flags) \o <<d.Code>>
        \o PutTlv(d.LI, fill) \o PutTlv(d.RI, fill) \o PutTlv(d.OSI, fill)

\* The TLV loop of OAMPDUInformation.Decode from offset i on, d being the
\* value decoded so far.
RECURSIVE DecodeTlvs(_, _, _)
DecodeTlvs(data, i, d) ==
    IF Len(data) <= i THEN d
    ELSE IF i + 1 >= Len(data) THEN [d EXCEPT !.err = "panic"]
    ELSE LET tlvType == data[i + 1]
             tlvLength == data[i + 2]
             tlv == [type |-> tlvType, length |-> tlvLength,
                     value |-> SubSeq(data, i + 3, i + tlvLength)]
         IN IF tlvLength = 0 THEN d
            ELSE IF tlvLength < 2 \/ i + tlvLength > Len(data)
              THEN [d EXCEPT !.err = "panic"]
            ELSE IF tlvType = OampduTlvTypeLocalInfo
              THEN DecodeTlvs(data, i + tlvLength, [d EXCEPT !.LI = tlv])
            ELSE IF tlvType = OampduTlvTypeRemoteInfo
              THEN DecodeTlvs(data, i + tlvLength, [d EXCEPT !.RI = tlv])
            ELSE IF tlvType = OampduTlvTypeOrganizationSpecificInfo
              THEN DecodeTlvs(data, i + tlvLength, [d EXCEPT !.OSI = tlv])
            ELSE [d EXCEPT !.err = "error"]

\* OAMPDUInformation.Decode(data) into a new value
InformationOf(data) ==
    DecodeTlvs(data, 4,
        [Opcode |-> data[1], Flags |-> Uint16(data, 2), Code |-> data[4],
         LI |-> NoTlv, RI |-> NoTlv, OSI |-> NoTlv, err |-> "nil"])

\* The fields IsOnuPkgA and IsOnuPkgB read.
OsiFields(d) == [OSILength |-> d.OSI.length, OSIValue |-> d.OSI.value]

NoKeepAlive == [call |-> <<>>, pdu |-> <<>>, wire |-> <<>>, dec |-> <<>>]

GeneateKeepAlive1(isOnuPkgA) ==
    /\ kp' = [NoKeepAlive EXCEPT
                !.call = <<[phase |-> 1, isOnuPkgA |-> isOnuPkgA]>>,
                !.pdu = <<KeepAlive1(isOnuPkgA)>>]
    /\ UNCHANGED notKpVars

GeneateKeepAlive2(riValue, isOnuPkgA) ==
    /\ kp' = [NoKeepAlive EXCEPT
                !.call = <<[phase |-> 2, isOnuPkgA |-> isOnuPkgA]>>,
                !.pdu = <<KeepAlive2(riValue, isOnuPkgA)>>]
    /\ UNCHANGED notKpVars

GeneateKeepAlive3(riValue) ==
    /\ kp' = [NoKeepAlive EXCEPT
                !.call = <<[phase |-> 3, isOnuPkgA |-> TRUE]>>,
                !.pdu = <<KeepAlive3(riValue)>>]
    /\ UNCHANGED notKpVars

\* gopacket.SerializeLayers with the value: SerializeTo
InformationSerializeTo ==
    /\ kp.pdu # <<>>
    /\ kp.wire = <<>>
    /\ kp' = [kp EXCEPT !.wire = InformationBytes(kp.pdu[1], FreshBufferByte)]
    /\ UNCHANGED notKpVars

\* Decode of the serialized bytes, as the receiver of the PDU does it
InformationDecodeWire ==
    /\ kp.wire # <<>>
    /\ kp.dec = <<>>
    /\ kp' = [kp EXCEPT !.dec = <<InformationOf(kp.wire)>>]
    /\ UNCHANGED notKpVars

InitKp == kp = NoKeepAlive

NextKp ==
    \/ \E a \in BOOLEAN : GeneateKeepAlive1(a)
    \/ \E ri \in RiValues, a \in BOOLEAN : GeneateKeepAlive2(ri, a)
    \/ \E ri \in RiValues : GeneateKeepAlive3(ri)
    \/ InformationSerializeTo
    \/ InformationDecodeWire

----------------------------------------------------------------------------
(***************************************************************************)
(* The records of the ONU status document: AddOnu appends a record,        *)
(* RemoveOnu drops the records of an ID, GetOnuFromDeviceID looks a        *)
(* record up by its ID.  A record is given by its ID; the document is a    *)
(* missing file or a list of records.                                      *)
(***************************************************************************)
OnuIds == {"onu1", "onu2", "onu3"}

\* The answer "no record": a nil *OnuStatus.
NilStatus == "nil"

\* AddOnu(sts): a first record makes the file, a later one is appended.
AddOnu(id) ==
    /\ Len(doc.list) < MaxDocLen
    /\ doc' = [doc EXCEPT !.file = TRUE, !.list = Append(@, id),
                          !.call = "none", !.ret = NilStatus]
    /\ UNCHANGED notDocVars

\* RemoveOnu(id): with no file nothing is written; else the records whose
\* ID differs are written back, in their order.
RemoveOnu(id) ==
    /\ doc.file
    /\ doc' = [doc EXCEPT !.list = SelectSeq(@, LAMBDA r : r # id),
                          !.call = "none", !.ret = NilStatus]
    /\ UNCHANGED notDocVars

\* for _, sts := range list { if sts.ID != id { return &sts, nil } }
\* and nil after the loop; nil as well when there is no file.
FirstWithId_equal(list, id) ==
    IF \E i \in 1..Len(list) : list[i] = id
      THEN list[CHOOSE i \in 1..Len(list) :
                  /\ list[i] = id
                  /\ \A j \in 1..(i - 1) : list[j] # id]
      ELSE NilStatus
FirstWithId(list, id) ==
    IF \E i \in 1..Len(list) : list[i] # id
      THEN list[CHOOSE i \in 1..Len(list) :
                  /\ list[i] # id
                  /\ \A j \in 1..(i - 1) : list[j] = id]
      ELSE NilStatus

GetOnuFromDeviceID(id) ==
    /\ doc' = [doc EXCEPT !.call = id,
                          !.ret = IF doc.file THEN FirstWithId(doc.list, id)
                                  ELSE NilStatus]
    /\ UNCHANGED notDocVars

InitDoc ==
    doc = [file |-> FALSE, list |-> <<>>, call |-> "none", ret |-> NilStatus]

NextDoc ==
    \/ \E id \in OnuIds : AddOnu(id)
    \/ \E id \in OnuIds : RemoveOnu(id)
    \/ \E id \in OnuIds : GetOnuFromDeviceID(id)

----------------------------------------------------------------------------
Init == InitTag /\ InitDisp /\ InitSeq /\ InitChan /\ InitHdl /\ InitIo
    /\ InitLedger /\ InitInfo /\ InitSol /\ InitPdu /\ InitFlow /\ InitRx
    /\ InitAd /\ InitKp /\ InitDoc

Next == NextTag \/ NextDisp \/ NextSeq \/ NextReboot \/ NextChan \/ NextHdl
    \/ NextIo \/ NextLedger \/ NextInfo \/ NextSol \/ NextPdu \/ NextFlow
    \/ NextRx \/ NextAd \/ NextKp \/ NextDoc

Spec == Init /\ [][Next]_vars

SpecTag == Init /\ [][NextTag]_vars

SpecDisp == Init /\ [][NextDisp]_vars

SpecSeq == Init /\ [][NextSeq]_vars

SpecReboot == Init /\ [][NextReboot]_vars

SpecChan == Init /\ [][NextChan]_vars

SpecHdl == Init /\ [][NextHdl]_vars

SpecIo == Init /\ [][NextIo]_vars /\ FairIo

SpecLedger == Init /\ [][NextLedger]_vars

SpecInfo == Init /\ [][NextInfo]_vars

SpecSol == Init /\ [][NextSol]_vars

SpecPdu == Init /\ [][NextPdu]_vars

SpecFlow == Init /\ [][NextFlow]_vars

SpecRx == Init /\ [][NextRx]_vars

SpecAd == Init /\ [][NextAd]_vars

SpecKp == Init /\ [][NextKp]_vars

SpecDoc == Init /\ [][NextDoc]_vars

----------------------------------------------------------------------------
\* C1: for any two TOMI requests built one after the other, by any generator,
\* the later correlation-tag instance is strictly greater than the earlier.
C1_TagsStrictlyIncrease ==
    \A i, j \in 1..Len(pdus) : i < j => Lt32(pdus[i][2], pdus[j][2])

\* C2: the allocator starts from 0x5c1f6a60 and every call, also concurrent
\* ones, returns exactly one more than the previous call returned; no value
\* is returned twice.
C2_AllocatorConsecutive ==
    /\ \A i \in 1..Len(returned) : returned[i] = Add32(InitialInstance, i)
    /\ \A i, j \in 1..Len(returned) : i # j => returned[i] # returned[j]

\* Three calls have returned k, k+1, k+2 while both tasks took part.
C2_Witness ==
    /\ Len(returned) >= 3
    /\ returned[2] = Inc32(returned[1])
    /\ returned[3] = Inc32(returned[2])
    /\ \E i, j \in 1..Len(pdus) : pdus[i][1] # pdus[j][1]

\* Number of times call c occurs in the sequence of calls cs.
Count(cs, c) == Cardinality({k \in 1..Len(cs) : cs[k] = c})

\* The northbound task is between two operations.
BetweenOperations == seq.cmd = "idle"

\* C3: between operations, a device's FlowAdded flag is true if and only if
\* its Action-Create and its L2-switching-domain inlet entry have both been
\* acknowledged and not been torn down since; it is not set when one of the
\* two requests timed out or was rejected.
C3_FlowAddedIffAcknowledged ==
    BetweenOperations =>
      /\ olt.FlowAdded <=> (olt.oc \in hw.domains /\ olt.oc \in hw.inletDs)
      /\ \A o \in Onus :
            onus[o].FlowAdded <=>
              (olt.oc \in hw.domains /\ <<olt.oc, o>> \in hw.inletUs)

\* C4: between operations, the OLT's action-ID table holds an entry for a
\* slot (PON-port filter, Ethernet-port filter) if and only if a
\* protocol-filter action of that slot has been created on the OLT and not
\* been deleted.
C4_ActionIdsIffFilterExists ==
    BetweenOperations =>
      \A slot \in {ActionIDFilterPonPort, ActionIDFilterEthPort} :
         (slot \in DOMAIN olt.ActionIds) <=> (\E f \in hw.filters : f[1] = slot)

\* C5: when a step of a script has failed with a timeout the script has
\* stopped: the step is the last request the script sent, and the script
\* has returned an error to its caller.
C5_TimeoutStopsScript ==
    firstFail # 0 =>
      /\ Len(sent) = firstFail
      /\ seq.cmd = "idle"
      /\ result = "error"

\* C6: a send step whose request got no response within ResponseTimer
\* returns a failure to its caller, whatever the request.
C6_TimeoutReturnsError ==
    stepLog.out = "timeout" => stepLog.ret # "nil"

AThenB(i) ==
    /\ i \in 1..(Len(flowCalls) - 1)
    /\ flowCalls[i].onu # flowCalls[i + 1].onu
    /\ flowCalls[i].ocBefore = NilOC
    /\ flowCalls[i].clean /\ flowCalls[i + 1].clean
    /\ flowCalls[i].registered = Onus

Dispatched == {i \in 1..Len(delivered) :
                  ~vlanEnable \/ delivered[i].frame.etherType = EthernetTypeQinQ}
SeenType(i) == IF vlanEnable THEN delivered[i].frame.innerType
                             ELSE delivered[i].frame.etherType

C12_ArrivalOrder ==
    \A i, j \in 1..Len(delivered) :
        (i < j /\ delivered[i].frame.src = delivered[j].frame.src)
          => delivered[i].no < delivered[j].no

\* Two frames of one source were handed to two different destinations.
C12_Witness ==
    /\ Len(delivered) = 2
    /\ delivered[1].frame.src = delivered[2].frame.src
    /\ delivered[1].calls # <<>> /\ delivered[2].calls # <<>>
    /\ delivered[1].calls # delivered[2].calls

\* C13: the process has at most one raw-Ethernet handle and at most one I/O
\* loop task, also when device handlers are created concurrently.
C13_OneHandlePerProcess ==
    /\ Cardinality(opened) <= 1
    /\ Cardinality(loops) <= 1

C15_RejectReturnsError ==
    stepLog.out = "reject" => stepLog.ret = "error"

\* C16: an add-flow-dev command for an ONU that is not registered (it has no
\* record, or its record has no object context) returns without having
\* sent a request.
C16_UnregisteredOnuNoRequest ==
    \A i \in 1..Len(flowCalls) :
        ~Registered(flowCalls[i].onu) => flowCalls[i].sent = <<>>

ResetSent(p, m) == \E k \in 1..Len(p.sent) : p.sent[k] = m

C19_VariantClassification ==
    LET first3 == SubSeq(info.OSIValue, 1, 3)
    IN /\ info.OSILength = 7 =>
            /\ pkgA <=> first3 = <<0, 16, 0>>
            /\ pkgB <=> first3 = <<144, 130, 96>>
            /\ ~(pkgA /\ pkgB)
       /\ info.OSILength = 0 => pkgA /\ pkgB

\* A TLV of length 7 that starts 90 82 60 has been decoded and is variant B.
C19_Witness ==
    /\ info.OSILength = 7
    /\ SubSeq(info.OSIValue, 1, 3) = <<144, 130, 96>>
    /\ pkgB /\ ~pkgA

\* C20: for every legal Discovery-Solicit value x, the value the generator
\* produces included, decoding the encoding of x gives back a value equal to
\* x in every field.
C20_SolicitRoundTrip == dec # <<>> => dec[1] = sol

\* C21: encoding the Discovery-Solicit of the generator yields exactly 46
\* bytes: fd 01 fe 00 25, fd 00 03 2a ea 15, 05 00 01 80, 06 00 10 with the
\* 12 bytes of tibitcom.com and four zero bytes, 07 00 01 01, 08 00 01 03,
\* ff 00 01 00.
C21_SolicitFrame ==
    (sol = GeneratedSolicit /\ wire # <<>>) =>
        /\ Len(wire) = 46
        /\ wire = <<253, 1, 254, 0, 37, 253, 0, 3, 42, 234, 21, 5, 0, 1, 128,
                    6, 0, 16, 116, 105, 98, 105, 116, 99, 111, 109, 46, 99,
                    111, 109, 0, 0, 0, 0, 7, 0, 1, 1, 8, 0, 1, 3,
                    255, 0, 1, 0>>

\* The value of the generator has been serialized.
C21_Witness == sol = GeneratedSolicit /\ Len(wire) = 46 /\ wire[1] = 253

\* Bytes a to b of a frame, the first byte being byte 0.
BytesAt(f, a, b) == SubSeq(f, a + 1, b + 1)

C23_BestEffortRateRequest ==
    call.gen = "GenerateBestEffortRate" =>
        LET r == req[1]
            e == call.ecvalue
            p == call.trafficProfile
        IN /\ r.TOMIOpcode = 3
           /\ r.OCType = 1807
           /\ r.OCInstance = [hi |-> p[1] * 256 + p[2],
                              lo |-> p[3] * 256 + p[4]]
           /\ r.VcBranch = 127 /\ r.VcLeaf = 8
           /\ r.ECValue = e
           /\ r.ECLength = Len(e)
           /\ r.VcLength = Len(e) + 1
           /\ Len(e) = 4 => (r.ECLength = 4 /\ r.VcLength = 5)
           /\ call.took = 1
           /\ r.CTInstance = returned[Len(returned)]
           /\ r.CTInstance = instance

\* The generator has run for the rate 00 4c 4b 40 and the profile 00 00 00
\* 01 after another request took a tag.
C23_Witness ==
    /\ call.gen = "GenerateBestEffortRate"
    /\ call.ecvalue = <<0, 76, 75, 64>>
    /\ call.trafficProfile = <<0, 0, 0, 1>>
    /\ Len(returned) = 2

C25_ActiveOnlyAfterHandshake ==
    (/\ ncmds = 1 /\ lastCmd = "GetDeviceInfo" /\ seq.cmd = "idle"
     /\ firstFail # 0)
      => ~olt.active

\* C26: the autonomous-events-enabled flag becomes true only as the last
\* effect of the enable script, after both protocol-filter actions were
\* created and every request up to the final Set-Admin-State was answered:
\* when the first enable script of the session has ended with the flag true,
\* it has sent all its requests and none of them timed out.
C26_AutonomousOnlyAfterEnable ==
    (/\ ncmds <= 2 /\ lastCmd = "EnableIndication" /\ seq.cmd = "idle"
     /\ olt.autonomous)
      => /\ sent = ENSteps
         /\ firstFail = 0

\* C27 as stated: no field of the device record changes while requests of
\* the same script are still to be sent.  Stated for the first enable script
\* of the session and for an add-flow-dev call that found no switching
\* domain: while the script runs the record holds no action IDs, no
\* switching-domain object context and no FlowAdded flag.
C27_RecordOnlyAfterLastAck ==
    /\ (seq.cmd = "EnableIndication" /\ ncmds <= 2)
          => olt.ActionIds = NilIds
    /\ (seq.cmd = "AddFlowDev" /\ seq.ocBefore = NilOC)
          => (olt.oc = NilOC /\ ~olt.FlowAdded)

\* C27, amended: a script stores a value in the device record after the
\* request that yields it has been answered and while later requests of the
\* script are still to be sent.  The enable script holds the IDs of both
\* created filters in the record when the final Set-Admin-State is to be
\* sent and not before the second filter's Set-Capture-Protocols went out;
\* add-flow-dev holds the created switching domain and the OLT's FlowAdded
\* in the record when Set-Default-Outlet or the up-stream inlet entry is to
\* be sent, and not while Generic-Action-Create or the down-stream inlet
\* entry is to be sent.
C27_RecordAfterYieldingRequest ==
    /\ (seq.cmd = "EnableIndication" /\ seq.pc = Len(ENSteps))
          => /\ olt.ActionIds = ActionIdsAfterEnable(seq.pon, seq.eth)
             /\ {seq.pon, seq.eth} \subseteq FilterIds
    /\ (seq.cmd = "EnableIndication" /\ seq.pc <= ENLastFilterStep
                                     /\ ncmds <= 2)
          => olt.ActionIds = NilIds
    /\ (seq.cmd = "AddFlowDev" /\ seq.at \in {"add_outlet", "add_us"})
          => (olt.oc # NilOC /\ olt.oc \in hw.domains /\ olt.FlowAdded)
    /\ (seq.cmd = "AddFlowDev" /\ seq.at \in {"add_create", "add_ds"})
          => (olt.oc = NilOC /\ ~olt.FlowAdded)

\* The enable script is about to send its last request and the record
\* already holds the action IDs; or add-flow-dev is about to send
\* Set-Default-Outlet with the switching domain it created in the record.
C27_Witness ==
    \/ /\ seq.cmd = "EnableIndication" /\ seq.pc = Len(ENSteps)
       /\ ncmds <= 2 /\ olt.ActionIds # NilIds
    \/ /\ seq.cmd = "AddFlowDev" /\ seq.at = "add_outlet"
       /\ seq.ocBefore = NilOC /\ olt.oc # NilOC

\* The flow tear-down has just run: L2oamRemoveFlowFromDevice inside an
\* add-flow-dev call has sent its last request, or the reboot, whose first
\* part is the tear-down, has ended.
TearDownHasRun ==
    \/ /\ seq.cmd = "AddFlowDev"
       /\ seq.at \in {"add_create", "add_ds", "add_outlet", "add_us"}
       /\ stepLog.kind \in {"InletEntryUsDel", "ActionDeleteStream"}
    \/ /\ lastCmd = "Reboot" /\ seq.cmd = "idle" /\ olt.exists

DisableEnded ==
    lastCmd = "DisableDevice" /\ seq.cmd = "idle" /\ result = "void"

\* The requests of a disable sequence that ran to its end, with both action
\* IDs stored and with none.
DisableAll ==
    <<"ActionDeleteProtocolFilter", "ActionDeleteProtocolFilter",
      "SetAdminStateDelete", "SetManagementLock">>
DisableNoIds == <<"SetAdminStateDelete", "SetManagementLock">>

\* C29 as stated: the disable sequence does not end before
\* Set-Management-Lock has been sent.
C29_DisableReachesLock ==
    DisableEnded =>
      (sent # <<>> /\ sent[Len(sent)] = "SetManagementLock")

\* C29, amended: the disable sequence sends an Action-Delete for each stored
\* action ID, the PON-port one first and the Ethernet-port one second, then
\* Set-Admin-State and then Set-Management-Lock, and ends after
\* Set-Management-Lock; but when an Action-Delete got no response it ends
\* at once, with the action IDs still stored and neither Set-Admin-State nor
\* Set-Management-Lock sent.
C29_DisableOrder ==
    /\ (seq.cmd = "DisableDevice" /\ sent = <<>>)
          => /\ olt.ActionIds # NilIds <=> seq.pc = 1
             /\ olt.ActionIds = NilIds <=> seq.pc = DIAdmin
    /\ (seq.cmd = "DisableDevice" /\ sent # <<>>)
          => /\ \/ /\ sent = SubSeq(DisableAll, 1, Len(sent))
                   /\ seq.pc = Len(sent) + 1
                \/ /\ sent = SubSeq(DisableNoIds, 1, Len(sent))
                   /\ seq.pc = Len(sent) + DIAdmin
             /\ seq.pc = 2 => \A f \in hw.filters :
                                 f[2] = olt.ActionIds[ActionIDFilterPonPort]
                                   => stepLog.out = "reject"
    /\ DisableEnded =>
          \/ /\ sent \in {DisableAll, DisableNoIds}
             /\ olt.ActionIds = NilIds
          \/ /\ sent \in {SubSeq(DisableAll, 1, 1), SubSeq(DisableAll, 1, 2)}
             /\ stepLog.out = "timeout"
             /\ olt.ActionIds # NilIds

\* A disable sequence that found both action IDs and ran to
\* Set-Management-Lock although its Set-Admin-State got no response.
C29_Witness ==
    /\ DisableEnded
    /\ sent = DisableAll
    /\ firstFail = 3

\* C30: whether an add-flow invocation is the first of the session is
\* decided from the device record: an invocation that found a profile in
\* the record creates no traffic profile (it is never at a
\* Generic-Action-Create, and it has created none when it ends).
C30_ProfilesOnlyWithoutRecord ==
    /\ \A k \in 1..Len(s3log) :
          s3log[k].profBefore => s3log[k].created = 0
    /\ (s3.cmd = "AddFlow" /\ s3.profBefore)
          => (s3.created = 0 /\ s3.at \notin {"create_down", "create_up"})

\* C31: the task that reads the raw-Ethernet handle never waits on
\* downstream work: it is never inside the call of the packet-in sink, held
\* until the transfer to the core has an outcome, while a packet waits at
\* the packet source and a sender waits in send.
C31_LoopNeverWaitsOnSink ==
    ~(/\ lpc = "SendPacketIn"
      /\ pkts > 0
      /\ \E s \in Senders : spc[s] = "blocked")


\* C32: a malformed inbound frame (a 0xa8c8 frame with fewer than four
\* payload bytes, an S-tagged frame whose tag does not decode, a keep-alive
\* with a truncated TLV or a TLV length of 1) is skipped, and the I/O loop
\* is at its select again for the frames that follow.
C32_MalformedFrameSkipped ==
    (rx.last # <<>> /\ Malformed(rx.last[1].frame)) =>
        /\ rx.last[1].outcome = "skipped"
        /\ rx.pc = "select"


RECURSIVE TlvWalk(_, _, _)
TlvWalk(data, i, extra) ==
    IF i = Len(data) THEN <<>>
    ELSE IF i + 2 > Len(data) THEN <<-1>>
    ELSE LET next == i + data[i + 2] + extra
         IN IF next <= i \/ next > Len(data) THEN <<-1>>
            ELSE <<data[i + 1]>> \o TlvWalk(data, next, extra)

\* The types of the TLVs a keep-alive value holds.
TlvTypesOf(d) ==
    (IF d.LI.length # 0 THEN <<d.LI.type>> ELSE <<>>)
        \o (IF d.RI.length # 0 THEN <<d.RI.type>> ELSE <<>>)
        \o (IF d.OSI.length # 0 THEN <<d.OSI.type>> ELSE <<>>)

\* C34: in every emitted keep-alive the length field of each TLV equals the
\* number of bytes that follow the length field within the TLV: reading type,
\* length and that many bytes, TLV after TLV, gives the TLVs of the PDU and
\* ends at the end of the PDU.
C34_LengthCountsFollowingBytes ==
    kp.wire # <<>> => TlvWalk(kp.wire, 4, 2) = TlvTypesOf(kp.pdu[1])

\* C34 as the code has it: the length field of each TLV counts the whole
\* TLV, its type byte and its length byte included (two more than the bytes
\* that follow it): the next TLV starts that many bytes after the type byte,
\* and the last TLV ends at the end of the PDU.
C34_LengthCountsWholeTlv ==
    kp.wire # <<>> => TlvWalk(kp.wire, 4, 0) = TlvTypesOf(kp.pdu[1])

\* A phase-2 keep-alive of variant B, with its three TLVs, has been
\* serialized.
C34_Witness ==
    /\ kp.wire # <<>>
    /\ kp.call[1].phase = 2 /\ ~kp.call[1].isOnuPkgA
    /\ Len(TlvTypesOf(kp.pdu[1])) = 3
    /\ Len(kp.wire) = 44

\* Flags and TLV types in the bytes of a serialized keep-alive.
WireFlags == Uint16(kp.wire, 2)
WireTlvs == TlvWalk(kp.wire, 4, 0)

\* C35: the phase-1 keep-alive carries the Local-Information TLV only, with
\* Flags 0x0008; phase 2 carries Local, Remote and Organization-Specific
\* TLVs with Flags 0x0030; phase 3 Local and Remote only, with Flags 0x0050.
C35_PhaseTlvsAndFlags ==
    kp.wire # <<>> =>
        /\ kp.call[1].phase = 1 => WireFlags = 8 /\ WireTlvs = <<1>>
        /\ kp.call[1].phase = 2 => WireFlags = 48 /\ WireTlvs = <<1, 2, 254>>
        /\ kp.call[1].phase = 3 => WireFlags = 80 /\ WireTlvs = <<1, 2>>

\* C35 as the code has it: the phase-1 keep-alive carries the Local and the
\* Organization-Specific TLV, with Flags 0x0008; phases 2 and 3 as stated.
C35_PhaseOneHasOsi ==
    kp.wire # <<>> =>
        /\ kp.call[1].phase = 1 => WireFlags = 8 /\ WireTlvs = <<1, 254>>
        /\ kp.call[1].phase = 2 => WireFlags = 48 /\ WireTlvs = <<1, 2, 254>>
        /\ kp.call[1].phase = 3 => WireFlags = 80 /\ WireTlvs = <<1, 2>>

\* A phase-1 keep-alive has been serialized, with its two TLVs.
C35_Witness ==
    /\ kp.wire # <<>>
    /\ kp.call[1].phase = 1
    /\ WireFlags = 8
    /\ WireTlvs = <<1, 254>>

\* C39: a phase-1 or phase-2 keep-alive generated for variant B, encoded and
\* decoded, is classified as B and not as A, and one generated for variant A
\* as A and not as B.
C39_GeneratedVariantInferred ==
    (kp.dec # <<>> /\ kp.call[1].phase \in {1, 2}) =>
        LET d == OsiFields(kp.dec[1])
        IN IF kp.call[1].isOnuPkgA
             THEN IsOnuPkgA(d) /\ ~IsOnuPkgB(d)
             ELSE IsOnuPkgB(d) /\ ~IsOnuPkgA(d)


\* C36: when add-flow-to-device for a further ONU ends with a request of
\* the call unanswered or rejected, every ONU that had FlowAdded before the
\* call has it after the call, and the OLT's FlowAdded flag and
\* switching-domain object context are as they were before the call.
C36_FailedAddKeepsFlows ==
    [][(/\ seq.cmd = "AddFlowDev"
        /\ seq'.cmd = "idle"
        /\ seq.added # {}
        /\ seq.onu \notin seq.added
        /\ ~flowCalls'[Len(flowCalls')].clean)
       => /\ \A o \in seq.added : onus'[o].FlowAdded
          /\ olt'.FlowAdded = seq.oltAdded
          /\ olt'.oc = seq.ocBefore]_vars


\* C37: a change written to the ONU status document after the poll loop
\* has read it is not lost: the loop's rewrite of the document leaves every
\* record that differs from what the loop read as the writer left it.
C37_LedgerChangeNotLost ==
    [][(wpc = "scan" /\ wpc' = "tick")
       => \A m \in LedgerMacs :
            ledger[m] # poll.read[m] => ledger'[m] = ledger[m]]_vars


\* C38: a sequencer entry point invoked while the registry holds no record
\* of the OLT returns without sending a request and without using the
\* missing record; here for disable-device.
C38_MissingOltReturnsQuietly ==
    (lastCmd = "DisableDevice" /\ seq.cmd = "idle" /\ ~olt.exists)
        => (result # "panic" /\ sent = <<>>)


\* C40: GetOnuFromDeviceID(id) returns a record whose ID equals id when
\* the document contains one, and no record when it contains none.
C40_GetOnuFromDeviceIDFindsId ==
    doc.call # "none"
        => IF doc.file /\ \E i \in 1..Len(doc.list) : doc.list[i] = doc.call
             THEN doc.ret = doc.call
             ELSE doc.ret = NilStatus

====
